---- MODULE Spec2Model ----
(***************************************************************************)
(* Model of the workspace-provisioning orchestration of power-bi-client:   *)
(* PowerBiService.initClientProject / importPbixToWorkspace, the facade    *)
(* calls they make, PowerBiService.handleToken and                         *)
(* HttpHandler.handleHttpCall with its single retry on HTTP 429.           *)
(*                                                                         *)
(* One behaviour is one call of an entry point.  Every facade call is one  *)
(* action: it takes the platform's answers (token exchange outcome, HTTP   *)
(* statuses of the first and of the retried attempt, response body) as     *)
(* inputs and performs handleToken, handleHttpCall and the code that       *)
(* follows the await up to the next remote call.                           *)
(***************************************************************************)
EXTENDS Integers, Sequences, FiniteSets, TLC

(* ------------------------------- bounds -------------------------------- *)
\* how often the platform answers "Publishing" to an import poll
MaxImportPolls == 2
\* number of users the template group's listing holds at most
MaxUsers == 1
\* number of reports bound to the provisioned dataset at most
MaxReports == 1
\* client-credentials exchanges up to which the cached token may still expire
MaxTokenRequests == 2
\* number of refresh records one poll returns at most
MaxRefreshRecords == 1
\* number of datasources the platform lists for a dataset at most
MaxDatasources == 2

(* -------------------------- program constants -------------------------- *)
\* part_007:92  const ERROR_TOO_MANY_REQUESTS = 429
ERROR_TOO_MANY_REQUESTS == 429
\* part_003:488 while (counter < 72 && !refreshed)
REFRESH_POLL_LIMIT == 72

\* NETWORK_FAILURE stands for a fetch() that rejects (no response at all)
NETWORK_FAILURE == 0
HTTP_OK == 200
HTTP_SERVER_ERROR == 500
\* the statuses the platform answers a request of the workflow with
Statuses == {HTTP_OK, ERROR_TOO_MANY_REQUESTS, HTTP_SERVER_ERROR}
\* the statuses a single handleHttpCall is exercised with
HttpStatuses == {NETWORK_FAILURE, HTTP_OK, 204, 400, 404,
                 ERROR_TOO_MANY_REQUESTS, HTTP_SERVER_ERROR, 503}

\* Response.statusText of a status
StatusText(s) ==
  CASE s = HTTP_OK -> "OK"
    [] s = ERROR_TOO_MANY_REQUESTS -> "Too Many Requests"
    [] s = HTTP_SERVER_ERROR -> "Internal Server Error"
    [] s = 204 -> "No Content"
    [] s = 400 -> "Bad Request"
    [] s = 404 -> "Not Found"
    [] s = 503 -> "Service Unavailable"
    [] OTHER -> ""

\* Response.ok of node-fetch: status in 200..299
ResponseOk(s) == s >= 200 /\ s <= 299

\* the statuses of the responses that handleHttpResponse turns into HttpError
FailedStatuses == {s \in HttpStatuses : s # NETWORK_FAILURE /\ ~ResponseOk(s)}

(* ------------------------------- errors -------------------------------- *)
NoError == [kind |-> "none", status |-> 0, statusText |-> ""]
\* PowerBiError with one of PowerBiError.ERROR_MESSAGES; a JS TypeError, the
\* loader's own error and the rejected fetch are errors of other classes
PowerBiError(message) == [kind |-> message, status |-> 0, statusText |-> ""]
\* HttpError(COMMUNICATION_ERROR, {%STATUS%, %STATUS_TEXT%})
HttpError(s) == [kind |-> "COMMUNICATION_ERROR", status |-> s, statusText |-> StatusText(s)]
\* AzureError(GENERATING_ACCESS_TOKEN_EXCEPTION)
AzureError == [kind |-> "GENERATING_ACCESS_TOKEN_EXCEPTION", status |-> 0, statusText |-> ""]
FetchError == [kind |-> "FETCH_ERROR", status |-> 0, statusText |-> ""]
TypeError == [kind |-> "TYPE_ERROR", status |-> 0, statusText |-> ""]
LoaderError == [kind |-> "TEMPLATE_LOADER_ERROR", status |-> 0, statusText |-> ""]

(* --------------------------- HttpHandler ------------------------------- *)
\* handleHttpResponse: a 2xx response yields the parsed body, any other one
\* raises HttpError carrying the response's status and status text
handleHttpResponse(s) ==
  IF ResponseOk(s) THEN [ok |-> TRUE, err |-> NoError]
  ELSE [ok |-> FALSE, err |-> HttpError(s)]

\* one fetch(callUrl, requestInit): the attempt as it reaches the platform
Attempt(url, s) == [url |-> url, status |-> s]

\* faulty variant of handleHttpCall: retries after every non-2xx response
handleHttpCallRetryAll(url, s1, s2) ==
  IF s1 = NETWORK_FAILURE
  THEN [ok |-> FALSE, err |-> FetchError, attempts |-> <<Attempt(url, s1)>>]
  ELSE IF ~ResponseOk(s1)
  THEN IF s2 = NETWORK_FAILURE
       THEN [ok |-> FALSE, err |-> FetchError,
             attempts |-> <<Attempt(url, s1), Attempt(url, s2)>>]
       ELSE [ok |-> handleHttpResponse(s2).ok, err |-> handleHttpResponse(s2).err,
             attempts |-> <<Attempt(url, s1), Attempt(url, s2)>>]
  ELSE [ok |-> handleHttpResponse(s1).ok, err |-> handleHttpResponse(s1).err,
        attempts |-> <<Attempt(url, s1)>>]

\* handleHttpCall(url, requestInit, ...): s1 is the platform's answer to the
\* first fetch, s2 its answer to the second one (read only after a 429)
handleHttpCall(url, s1, s2) ==
  IF s1 = NETWORK_FAILURE
  THEN [ok |-> FALSE, err |-> FetchError, attempts |-> <<Attempt(url, s1)>>]
  ELSE IF s1 = ERROR_TOO_MANY_REQUESTS
  THEN IF s2 = NETWORK_FAILURE
       THEN [ok |-> FALSE, err |-> FetchError,
             attempts |-> <<Attempt(url, s1), Attempt(url, s2)>>]
       ELSE [ok |-> handleHttpResponse(s2).ok, err |-> handleHttpResponse(s2).err,
             attempts |-> <<Attempt(url, s1), Attempt(url, s2)>>]
  ELSE [ok |-> handleHttpResponse(s1).ok, err |-> handleHttpResponse(s1).err,
        attempts |-> <<Attempt(url, s1)>>]


(* ------------------------- authentication ------------------------------ *)
\* the cached token of powerBiRestConfig.authorizationToken is "empty"
\* (accessToken ''), "valid" (now + TIME_SHIFT_CONSTANT < expireAt) or
\* "expired"; isValidToken reads the clock, which only the environment moves
isValidToken(token) == token # "empty" /\ token = "valid"

\* BaseAzureAuthClient.generateValidToken(currentToken); exchangeOk is the
\* identity provider's answer to getToken()
generateValidToken(currentToken, exchangeOk) ==
  IF isValidToken(currentToken)
  THEN [ok |-> TRUE, token |-> currentToken, exchanged |-> FALSE]
  ELSE IF exchangeOk
       THEN [ok |-> TRUE, token |-> "valid", exchanged |-> TRUE]
       ELSE [ok |-> FALSE, token |-> currentToken, exchanged |-> TRUE]

(* ------------------------------ state ---------------------------------- *)
VARIABLES
  pc,                  \* the remote call the running entry point makes next
  entry,               \* "init" (initClientProject) or "import" (importPbixToWorkspace)
  config,              \* the PowerBiConfigDto passed to the entry point
  groupId,             \* the groupId argument of importPbixToWorkspace
  newGroup,            \* initClientProject: id of the created group, "" while unset
  pbiGroup,            \* importPbixToWorkspace: the group found by getGroup
  importState,         \* importState of the last import poll answered
  publishing,          \* "Publishing" answers the running import poll has had
  toCopy,              \* copyUsersFromGroup: users of the source not yet visited
  added,               \* copyUsersFromGroup: addedAddedUsers while the copy runs
  datasetId,           \* id of the dataset found by name, "" while unset
  datasource,          \* the datasource used: 1, the first one listed; 0 unset
  counter,             \* refresh poll: counter
  refreshed,           \* refresh poll: refreshed
  pending,             \* reports whose page listing is still in flight
  issued,              \* the operations a request was sent for
  lastOp,              \* the operation of the request sent last
  refreshRequests,     \* getDatasetRefreshes requests sent
  deleteRequests,      \* deleteGroup requests sent
  authorizationToken,  \* powerBiRestConfig.authorizationToken
  tokenRequests,       \* client-credentials exchanges requested
  groups,              \* platform: the workspaces that exist
  err,                 \* the error the entry point raised to its caller
  cause,               \* the error first thrown by a step
  importErr,           \* the error importPbixToWorkspace rejected with
  result,              \* the PBIClientInitResultType returned
  http                 \* one HttpHandler.handleHttpCall: its inputs and outcome

VARIABLES
  tok,                 \* one generateValidToken call: its inputs and outcome
  shared,              \* two PowerBiService instances over powerBiRestConfig
  tpl,                 \* one PowerBiConfigDto: its template and the getTemplate calls
  copy,                \* one copyUsersFromGroup after another: groups, loop state, requests
  fin,                 \* one allRefreshesInFinalState call: its argument and result
  rep,                 \* the listing of a dataset's reports exercised on its own
  cap,                 \* one assignCapacityToGroup call exercised on its own
  fac,                 \* one facade call exercised on its own
  lst,                 \* one listing call exercised on its own
  fab,                 \* getFolderOrCreate calls against one Fabric workspace
  race,                \* two concurrent facade calls on one PowerBiService
  dst,                 \* the dataset lookup after an import exercised on its own
  dsr,                 \* the gateway credential update exercised on its own
  rty,                 \* one handleHttpCall with its clock exercised on its own
  dto,                 \* one PowerBiConfigDto construction exercised on its own
  del,                 \* one FabricService.deleteRecursive exercised on its own
  rpl,                 \* one refresh poll of importPbixToWorkspace exercised on its own
  bear,                \* one facade call with its bearer token and its clock exercised on its own
  gdr                  \* one PowerBiClient.groupDatasetRefreshed exercised on its own

\* the variables of the calls exercised on their own
unitVars == <<tok, shared, tpl, copy, fin, rep, cap, fac, lst, fab, race, dst, dsr, rty, dto, del, rpl, bear, gdr>>

vars == <<pc, entry, config, groupId, newGroup, pbiGroup, importState, publishing,
          toCopy, added, datasetId, datasource, counter, refreshed, pending,
          issued, lastOp, refreshRequests, deleteRequests, authorizationToken,
          tokenRequests, groups, err, cause, importErr, result, http, unitVars>>

callVars == <<entry, config, groupId>>
localVars == <<newGroup, pbiGroup, importState, publishing, toCopy, added,
               datasetId, datasource, counter, refreshed, pending>>
netVars == <<issued, lastOp, refreshRequests, deleteRequests, authorizationToken,
             tokenRequests>>
outcomeVars == <<err, cause, importErr, result>>
workflowVars == <<pc, callVars, localVars, netVars, groups, outcomeVars>>

\* part_003:364 GROUP_PREFIX, '' when POWER_BI_GROUP_PREFIX is not set
GROUP_PREFIX == ""

\* the configs a caller can build: name, datasourceCredentials (absent when
\* no credentials were resolved), datasourceParams, scheduledTimes
\* (normalised to undefined when empty) and capacityId
Configs ==
  [name : {"", "Sales"},
   datasourceCredentials : {"undefined", "credentials"},
   datasourceParams : {<<>>, <<"param">>},
   scheduledTimes : {"undefined", "03:00"},
   capacityId : {"", "capacity"}]

\* the user ids of the platform
Users == 1 .. MaxUsers
\* the listings of the template group's users
UserListings == UNION {[1 .. n -> Users] : n \in 0 .. MaxUsers}

RefreshStatuses == {"Unknown", "Completed", "Failed", "Disabled"}
RefreshListings == UNION {[1 .. n -> RefreshStatuses] : n \in 0 .. MaxRefreshRecords}

\* part_003:357 REFRESH_FINAL_STATUSES
REFRESH_FINAL_STATUSES == {"Failed", "Completed", "Disabled", "Unknown"}

\* faulty variant of allRefreshesInFinalState: every status of
\* REFRESH_FINAL_STATUSES counts as final, Unknown included
allRefreshesInFinalStateWithUnknown(refreshes) ==
  Len(SelectSeq(refreshes, LAMBDA refresh : refresh \in REFRESH_FINAL_STATUSES))
    = Len(refreshes)
\* allRefreshesInFinalState(refreshes) for a present list
allRefreshesInFinalState(refreshes) ==
  Len(SelectSeq(refreshes,
        LAMBDA refresh : refresh # "Unknown" /\ refresh \in REFRESH_FINAL_STATUSES))
    = Len(refreshes)

\* the answers of the outside world to one facade call: whether the cached
\* token has reached its expiry margin, whether the credential exchange
\* succeeds, and the statuses of the first and of the retried HTTP attempt
\* (the second one is read only after a 429)
Answers ==
  {a \in [expire : BOOLEAN, exchangeOk : BOOLEAN, s1 : Statuses, s2 : Statuses] :
     a.s1 # ERROR_TOO_MANY_REQUESTS => a.s2 = HTTP_OK}

\* the answers that differ in what the call made now reads: only a valid
\* token can expire (MaxTokenRequests exchanges at most are caused by
\* expiry), the exchange is asked for only without a valid token, and the
\* statuses are read only when a request is sent
AnswersNow ==
  {a \in Answers :
     /\ a.expire => authorizationToken = "valid" /\ tokenRequests < MaxTokenRequests
     /\ (authorizationToken = "valid" /\ ~a.expire) => a.exchangeOk
     /\ ~a.exchangeOk => a.s1 = HTTP_OK}

NoResult == [returned |-> FALSE, dataRefreshed |-> FALSE]
\* the paths handleHttpCall is exercised with
Urls == {"/groups", "/groups/:groupId", "/groups/:groupId/imports"}
HttpIdle == [phase |-> "idle", url |-> "", s1 |-> HTTP_OK, s2 |-> HTTP_OK,
             attempts |-> <<>>, ok |-> TRUE, err |-> NoError]

InitWorkflow ==
  /\ pc = "idle"
  /\ entry = "none"
  /\ config = [name |-> "", datasourceCredentials |-> "undefined",
               datasourceParams |-> <<>>, scheduledTimes |-> "undefined",
               capacityId |-> ""]
  /\ groupId = ""
  /\ newGroup = ""
  /\ pbiGroup = "undefined"
  /\ importState = "none"
  /\ publishing = 0
  /\ toCopy = <<>>
  /\ added = {}
  /\ datasetId = ""
  /\ datasource = 0
  /\ counter = 0
  /\ refreshed = FALSE
  /\ pending = {}
  /\ issued = {}
  /\ lastOp = "none"
  /\ refreshRequests = 0
  /\ deleteRequests = 0
  /\ authorizationToken = "empty"
  /\ tokenRequests = 0
  /\ groups = {"existing"}
  /\ err = NoError
  /\ cause = NoError
  /\ importErr = NoError
  /\ result = NoResult

\* no generateValidToken call is exercised
TokIdle == [phase |-> "idle"]

\* no second PowerBiService instance is in use
SharedIdle == [phase |-> "idle"]

\* no getTemplate call is exercised
TplIdle == [phase |-> "idle"]

\* no copyUsersFromGroup call is exercised
CopyIdle == [phase |-> "idle"]

\* no allRefreshesInFinalState call is exercised
FinIdle == [phase |-> "idle"]

\* no report listing under way
RepIdle == [phase |-> "idle"]

\* no assignCapacityToGroup call under way
CapIdle == [phase |-> "idle"]

\* no facade call under way
FacIdle == [phase |-> "idle"]

\* no listing call under way
LstIdle == [phase |-> "idle"]

\* no getFolderOrCreate call under way
FabIdle == [phase |-> "idle"]

\* no concurrent facade calls under way
RaceIdle == [phase |-> "idle"]

\* no dataset lookup under way
DstIdle == [phase |-> "idle"]

\* no credential update under way
DsrIdle == [phase |-> "idle"]

\* no timed handleHttpCall under way
RtyIdle == [phase |-> "idle"]

\* no PowerBiConfigDto construction under way
DtoIdle == [phase |-> "idle"]

\* no deleteRecursive under way
DelIdle == [phase |-> "idle"]

\* no refresh poll under way
RplIdle == [phase |-> "idle"]

\* no timed facade call under way
BearIdle == [phase |-> "idle"]

\* no groupDatasetRefreshed under way
GdrIdle == [phase |-> "idle"]

\* the calls exercised on their own are idle, all but `except`
UnitsIdle(except) ==
  /\ (except # "tok" => tok = TokIdle)
  /\ (except # "shared" => shared = SharedIdle)
  /\ (except # "tpl" => tpl = TplIdle)
  /\ (except # "copy" => copy = CopyIdle)
  /\ (except # "fin" => fin = FinIdle)
  /\ (except # "rep" => rep = RepIdle)
  /\ (except # "cap" => cap = CapIdle)
  /\ (except # "fac" => fac = FacIdle)
  /\ (except # "lst" => lst = LstIdle)
  /\ (except # "fab" => fab = FabIdle)
  /\ (except # "race" => race = RaceIdle)
  /\ (except # "dst" => dst = DstIdle)
  /\ (except # "dsr" => dsr = DsrIdle)
  /\ (except # "rty" => rty = RtyIdle)
  /\ (except # "dto" => dto = DtoIdle)
  /\ (except # "del" => del = DelIdle)
  /\ (except # "rpl" => rpl = RplIdle)
  /\ (except # "bear" => bear = BearIdle)
  /\ (except # "gdr" => gdr = GdrIdle)

Init == InitWorkflow /\ http = HttpIdle /\ UnitsIdle("none")

(* ---------------------- one facade call, end to end -------------------- *)
\* assembleRequest(method, await this.handleToken(), ...) followed by
\* HttpHandler.handleHttpCall(path, requestInit, ...).  handleToken stores
\* the token generateValidToken returns; when the exchange fails nothing is
\* sent.  The clock may have passed the cached token's expiry margin since
\* the previous call (a.expire).
Remote(op, a) ==
  LET cached == IF a.expire THEN "expired" ELSE authorizationToken
      t == generateValidToken(cached, a.exchangeOk)
      h == handleHttpCall(op, a.s1, a.s2)
  IN  IF t.ok
      THEN [ok |-> h.ok, err |-> h.err, sent |-> TRUE, token |-> t.token,
            exchanged |-> t.exchanged]
      ELSE [ok |-> FALSE, err |-> AzureError, sent |-> FALSE, token |-> t.token,
            exchanged |-> t.exchanged]

\* what a facade call leaves behind: the request at the platform (when one
\* was sent) and the token cache
Net(op, r) ==
  /\ issued' = IF r.sent THEN issued \cup {op} ELSE issued
  /\ lastOp' = IF r.sent THEN op ELSE lastOp
  /\ refreshRequests' =
       refreshRequests + (IF r.sent /\ op = "getDatasetRefreshes" THEN 1 ELSE 0)
  /\ deleteRequests' = deleteRequests + (IF r.sent /\ op = "deleteGroup" THEN 1 ELSE 0)
  /\ authorizationToken' = r.token
  /\ tokenRequests' = tokenRequests + (IF r.exchanged THEN 1 ELSE 0)


(* --------------------------- control flow ------------------------------ *)
\* faulty variant of initPreconditionOk: the name is not checked
initPreconditionNone(cfg) == TRUE
\* initClientProject: if (config?.name)
initPreconditionOk(cfg) == cfg.name # ""

\* faulty variant of importPreconditionOk: the credentials are not checked
importPreconditionWeak(gid, cfg) == gid # ""
\* importPbixToWorkspace: groupId && config.datasourceCredentials
importPreconditionOk(gid, cfg) == gid # "" /\ cfg.datasourceCredentials # "undefined"

\* faulty variant of importCatch: the error caught is thrown again
importCatchRethrow(e) == e
\* importPbixToWorkspace: catch (e) { throw UNEXPECTED_CREATION_ERROR }
importCatch(e) == PowerBiError("UNEXPECTED_CREATION_ERROR")

\* initClientProject: catch (e) { ...; throw UNEXPECTED_CREATION_ERROR }
initCatch(e) == PowerBiError("UNEXPECTED_CREATION_ERROR")

\* faulty variant of continueImportPoll: the poll gives up after one answer
continueImportPollCapped(state) == state = "Publishing" /\ publishing < 1
\* import poll: while (importData.importState === 'Publishing')
continueImportPoll(state) == state = "Publishing"

\* faulty variant of continueRefreshPoll: one poll more
continueRefreshPollOneMore(cnt, final) == cnt <= REFRESH_POLL_LIMIT /\ ~final
\* refresh poll: while (counter < 72 && !refreshed)
continueRefreshPoll(cnt, final) == cnt < REFRESH_POLL_LIMIT /\ ~final

\* faulty variant of NextStep: the refresh is triggered before the
\* datasource credentials are updated
NextStepRefreshEarly(step, cfg) ==
  CASE step = "listGroups" -> "getGroupUsersSource"
    [] step = "getGroupUsersSource" -> "getGroupUsersTarget"
    [] step = "getGroupUsersTarget" -> "addGroupUser"
    [] step = "addGroupUser" -> "getTemplate"
    [] step = "getTemplate" -> "importInGroup"
    [] step = "importInGroup" -> "getImportInGroup"
    [] step = "getImportInGroup" -> "getGroupDatasets"
    [] step = "getGroupDatasets" -> "datasetTakeOver"
    [] step = "datasetTakeOver" -> "datasetUpdateParameters"
    [] step = "datasetUpdateParameters" -> "datasetRefresh"
    [] step = "datasetRefresh" -> "listDatasourcesInGroup"
    [] step = "listDatasourcesInGroup" -> "gatewayDatasourceUpdate"
    [] step = "gatewayDatasourceUpdate" -> "getDatasetRefreshes"
    [] step = "getDatasetRefreshes" ->
         IF cfg.scheduledTimes # "undefined" THEN "datasetCreateRefreshSchedule"
         ELSE "listReportsInGroup"
    [] step = "datasetCreateRefreshSchedule" -> "listReportsInGroup"
    [] step = "listReportsInGroup" -> "listReportPagesInGroup"

\* faulty variant of NextStep: the schedule is installed whether or not
\* one is configured
NextStepAlwaysSchedule(step, cfg) ==
  CASE step = "listGroups" -> "getGroupUsersSource"
    [] step = "getGroupUsersSource" -> "getGroupUsersTarget"
    [] step = "getGroupUsersTarget" -> "addGroupUser"
    [] step = "addGroupUser" -> "getTemplate"
    [] step = "getTemplate" -> "importInGroup"
    [] step = "importInGroup" -> "getImportInGroup"
    [] step = "getImportInGroup" -> "getGroupDatasets"
    [] step = "getGroupDatasets" -> "datasetTakeOver"
    [] step = "datasetTakeOver" -> "datasetUpdateParameters"
    [] step = "datasetUpdateParameters" -> "listDatasourcesInGroup"
    [] step = "listDatasourcesInGroup" -> "gatewayDatasourceUpdate"
    [] step = "gatewayDatasourceUpdate" -> "datasetRefresh"
    [] step = "datasetRefresh" -> "getDatasetRefreshes"
    [] step = "getDatasetRefreshes" -> "datasetCreateRefreshSchedule"
    [] step = "datasetCreateRefreshSchedule" -> "listReportsInGroup"
    [] step = "listReportsInGroup" -> "listReportPagesInGroup"

\* faulty variant of NextStep: after the dataset listing the import status
\* is polled again
NextStepPollsAgain(step, cfg) ==
  CASE step = "listGroups" -> "getGroupUsersSource"
    [] step = "getGroupUsersSource" -> "getGroupUsersTarget"
    [] step = "getGroupUsersTarget" -> "addGroupUser"
    [] step = "addGroupUser" -> "getTemplate"
    [] step = "getTemplate" -> "importInGroup"
    [] step = "importInGroup" -> "getImportInGroup"
    [] step = "getImportInGroup" -> "getGroupDatasets"
    [] step = "getGroupDatasets" -> "getImportInGroup"
    [] step = "datasetTakeOver" -> "datasetUpdateParameters"
    [] step = "datasetUpdateParameters" -> "listDatasourcesInGroup"
    [] step = "listDatasourcesInGroup" -> "gatewayDatasourceUpdate"
    [] step = "gatewayDatasourceUpdate" -> "datasetRefresh"
    [] step = "datasetRefresh" -> "getDatasetRefreshes"
    [] step = "getDatasetRefreshes" ->
         IF cfg.scheduledTimes # "undefined" THEN "datasetCreateRefreshSchedule"
         ELSE "listReportsInGroup"
    [] step = "datasetCreateRefreshSchedule" -> "listReportsInGroup"
    [] step = "listReportsInGroup" -> "listReportPagesInGroup"

\* the statement order of importPbixToWorkspace: the facade call that
\* follows the successful return of `step`
NextStep(step, cfg) ==
  CASE step = "listGroups" -> "getGroupUsersSource"
    [] step = "getGroupUsersSource" -> "getGroupUsersTarget"
    [] step = "getGroupUsersTarget" -> "addGroupUser"
    [] step = "addGroupUser" -> "getTemplate"
    [] step = "getTemplate" -> "importInGroup"
    [] step = "importInGroup" -> "getImportInGroup"
    [] step = "getImportInGroup" -> "getGroupDatasets"
    [] step = "getGroupDatasets" -> "datasetTakeOver"
    [] step = "datasetTakeOver" -> "datasetUpdateParameters"
    [] step = "datasetUpdateParameters" -> "listDatasourcesInGroup"
    [] step = "listDatasourcesInGroup" -> "gatewayDatasourceUpdate"
    [] step = "gatewayDatasourceUpdate" -> "datasetRefresh"
    [] step = "datasetRefresh" -> "getDatasetRefreshes"
    [] step = "getDatasetRefreshes" ->
         IF cfg.scheduledTimes # "undefined" THEN "datasetCreateRefreshSchedule"
         ELSE "listReportsInGroup"
    [] step = "datasetCreateRefreshSchedule" -> "listReportsInGroup"
    [] step = "listReportsInGroup" -> "listReportPagesInGroup"

\* faulty variant of AfterImportRejects: the group is deleted whoever
\* called importPbixToWorkspace
AfterImportRejectsAlwaysDeletes(e, created) ==
  [pc |-> "deleteGroup", err |-> NoError]

\* where control goes when importPbixToWorkspace rejects with e: to its
\* caller, or into the catch block of initClientProject, which deletes the
\* created group (if (newGroup)) before it throws
AfterImportRejects(e, created) ==
  IF entry = "init"
  THEN IF created # ""
       THEN [pc |-> "deleteGroup", err |-> NoError]
       ELSE [pc |-> "raised", err |-> initCatch(e)]
  ELSE [pc |-> "raised", err |-> e]

\* a step inside the try block of importPbixToWorkspace throws e
StepFails(e) ==
  /\ cause' = e
  /\ importErr' = importCatch(e)
  /\ pc' = AfterImportRejects(importCatch(e), newGroup).pc
  /\ err' = AfterImportRejects(importCatch(e), newGroup).err
  /\ UNCHANGED result

\* a step returns and the next facade call is made
StepOk(next) ==
  /\ pc' = next
  /\ UNCHANGED <<err, cause, importErr, result>>

\* importPbixToWorkspace returns its result: to the caller, or to
\* initClientProject, which assigns the capacity if (config.capacityId)
ImportReturns ==
  /\ UNCHANGED <<err, cause, importErr>>
  /\ IF entry = "init" /\ config.capacityId # ""
     THEN pc' = "getCapacities" /\ UNCHANGED result
     ELSE pc' = "done" /\ result' = [returned |-> TRUE, dataRefreshed |-> refreshed]

(* ------------------------------ actions -------------------------------- *)
\* initClientProject(config)
CallInitClientProject(cfg) ==
  /\ pc = "idle"
  /\ entry' = "init"
  /\ config' = cfg
  /\ IF initPreconditionOk(cfg)
     THEN /\ pc' = "createGroup"
          /\ UNCHANGED <<err, cause>>
     ELSE /\ pc' = "raised"
          /\ err' = PowerBiError("MISSING_INIT_CONFIGURATION")
          /\ cause' = PowerBiError("MISSING_INIT_CONFIGURATION")
  /\ UNCHANGED <<groupId, localVars, netVars, groups, importErr, result, http, unitVars>>

\* importPbixToWorkspace(groupId, config) called by the user of the client
\* (config.capacityId is read by initClientProject only)
CallImportPbixToWorkspace(gid, cfg) ==
  /\ pc = "idle"
  /\ cfg.capacityId = ""
  /\ entry' = "import"
  /\ config' = cfg
  /\ groupId' = gid
  /\ IF importPreconditionOk(gid, cfg)
     THEN /\ pc' = "listGroups"
          /\ UNCHANGED <<err, cause, importErr>>
     ELSE /\ pc' = "raised"
          /\ err' = PowerBiError("MISSING_INIT_CONFIGURATION")
          /\ cause' = PowerBiError("MISSING_INIT_CONFIGURATION")
          /\ importErr' = PowerBiError("MISSING_INIT_CONFIGURATION")
  /\ UNCHANGED <<localVars, netVars, groups, result, http, unitVars>>

\* initClientProject: newGroup = await this.createGroup(GROUP_PREFIX + name),
\* then the call of importPbixToWorkspace(newGroup.id, config) up to its
\* first remote call
CreateGroup ==
  /\ pc = "createGroup"
  /\ IF GROUP_PREFIX = "" /\ config.name = ""
     THEN /\ cause' = PowerBiError("MISSING_REQUIRED_PARAM")
          /\ pc' = "raised"
          /\ err' = initCatch(PowerBiError("MISSING_REQUIRED_PARAM"))
          /\ UNCHANGED <<netVars, groupId, newGroup, groups, importErr>>
     ELSE \E a \in AnswersNow :
            LET r == Remote("createGroup", a) IN
            /\ Net("createGroup", r)
            /\ IF r.ok
               THEN /\ newGroup' = "new"
                    /\ groups' = groups \cup {"new"}
                    /\ groupId' = "new"
                    /\ IF importPreconditionOk("new", config)
                       THEN /\ pc' = "listGroups"
                            /\ UNCHANGED <<err, cause, importErr>>
                       ELSE /\ cause' = PowerBiError("MISSING_INIT_CONFIGURATION")
                            /\ importErr' = PowerBiError("MISSING_INIT_CONFIGURATION")
                            /\ pc' = "deleteGroup"
                            /\ UNCHANGED err
               ELSE /\ cause' = r.err
                    /\ pc' = "raised"
                    /\ err' = initCatch(r.err)
                    /\ UNCHANGED <<groupId, newGroup, groups, importErr>>
  /\ UNCHANGED <<entry, config, pbiGroup, importState, publishing, toCopy, added,
                 datasetId, datasource, counter, refreshed, pending, result, http, unitVars>>

\* importPbixToWorkspace: pbiGroup = await this.getGroup(groupId), which
\* lists the groups and finds the one with the id; the call is made before
\* the try block is entered, the first use of pbiGroup.id inside it
ListGroups ==
  /\ pc = "listGroups"
  /\ \E a \in AnswersNow :
       LET r == Remote("listGroups", a)
           found == IF groupId \in groups THEN groupId ELSE "undefined"
       IN
       /\ Net("listGroups", r)
       /\ IF r.ok
          THEN /\ pbiGroup' = found
               /\ IF found = "undefined"
                  THEN StepFails(TypeError)
                  ELSE StepOk(NextStep("listGroups", config))
          ELSE /\ cause' = r.err
               /\ importErr' = r.err
               /\ pc' = AfterImportRejects(r.err, newGroup).pc
               /\ err' = AfterImportRejects(r.err, newGroup).err
               /\ UNCHANGED <<pbiGroup, result>>
  /\ UNCHANGED <<callVars, newGroup, importState, publishing, toCopy, added,
                 datasetId, datasource, counter, refreshed, pending, groups, http, unitVars>>

\* copyUsersFromGroup: the users of the list that the loop passes over
\* because they are already in the set
RECURSIVE SkipPresent(_, _)
SkipPresent(users, present) ==
  IF users = <<>> THEN <<>>
  ELSE IF Head(users) \in present THEN SkipPresent(Tail(users), present)
  ELSE users

\* copyUsersFromGroup: users = await this.getGroupUsers(sourceGroupId)
GetGroupUsersSource ==
  /\ pc = "getGroupUsersSource"
  /\ \E a \in AnswersNow, users \in UserListings :
       LET r == Remote("getGroupUsers", a) IN
       /\ Net("getGroupUsers", r)
       /\ IF r.ok
          THEN toCopy' = users /\ StepOk(NextStep("getGroupUsersSource", config))
          ELSE UNCHANGED toCopy /\ StepFails(r.err)
  /\ UNCHANGED <<callVars, newGroup, pbiGroup, importState, publishing, added,
                 datasetId, datasource, counter, refreshed, pending, groups, http, unitVars>>

\* copyUsersFromGroup goes on with the users `rest` and the set `all`: the
\* next call is addGroupUser for the first user of rest that is not in the
\* set; with no such user the copy returns and the set is used no more
CopyGoesOn(rest, all) ==
  IF SkipPresent(rest, all) = <<>>
  THEN /\ toCopy' = <<>>
       /\ added' = {}
       /\ StepOk(NextStep("addGroupUser", config))
  ELSE /\ toCopy' = SkipPresent(rest, all)
       /\ added' = all
       /\ StepOk(NextStep("getGroupUsersTarget", config))

\* copyUsersFromGroup: the snapshot of the target's users, then the loop up
\* to the first user to add
GetGroupUsersTarget ==
  /\ pc = "getGroupUsersTarget"
  /\ \E a \in AnswersNow, present \in SUBSET Users :
       LET r == Remote("getGroupUsers", a) IN
       /\ Net("getGroupUsers", r)
       /\ IF r.ok THEN CopyGoesOn(toCopy, present)
          ELSE UNCHANGED <<added, toCopy>> /\ StepFails(r.err)
  /\ UNCHANGED <<callVars, newGroup, pbiGroup, importState, publishing,
                 datasetId, datasource, counter, refreshed, pending, groups, http, unitVars>>

\* copyUsersFromGroup: await this.addGroupUser(targetGroupId, user), then
\* the loop up to the next user to add
AddGroupUser ==
  /\ pc = "addGroupUser"
  /\ \E a \in AnswersNow :
       LET r == Remote("addGroupUser", a) IN
       /\ Net("addGroupUser", r)
       /\ IF r.ok THEN CopyGoesOn(Tail(toCopy), added \cup {Head(toCopy)})
          ELSE UNCHANGED <<added, toCopy>> /\ StepFails(r.err)
  /\ UNCHANGED <<callVars, newGroup, pbiGroup, importState, publishing,
                 datasetId, datasource, counter, refreshed, pending, groups, http, unitVars>>

\* data = await config.getTemplate(): the caller's loader, not a request
GetTemplate ==
  /\ pc = "getTemplate"
  /\ \E loaded \in BOOLEAN :
       IF loaded THEN StepOk(NextStep("getTemplate", config))
       ELSE StepFails(LoaderError)
  /\ UNCHANGED <<callVars, localVars, netVars, groups, http, unitVars>>

\* a facade call of the workflow whose answer carries nothing the workflow
\* reads: it returns, or it throws inside the try block
SimpleStep(op) ==
  /\ pc = op
  /\ \E a \in AnswersNow :
       LET r == Remote(op, a) IN
       /\ Net(op, r)
       /\ IF r.ok THEN StepOk(NextStep(op, config)) ELSE StepFails(r.err)
  /\ UNCHANGED <<callVars, localVars, groups, http, unitVars>>

\* importData = await this.importInGroup(pbiGroup.id, data, datasetName)
ImportInGroup == SimpleStep("importInGroup")

\* do { sleep 2 s; importData = await this.getImportInGroup(...) }
\* while (importData.importState === 'Publishing'); getImportInGroup throws
\* FAILED_IMPORT when the state is 'Failed'.  The platform answers
\* "Publishing" MaxImportPolls times at most.
GetImportInGroup ==
  /\ pc = "getImportInGroup"
  /\ \E a \in AnswersNow, state \in {"Publishing", "Succeeded", "Failed"} :
       LET r == Remote("getImportInGroup", a) IN
       /\ state = "Publishing" => publishing < MaxImportPolls
       /\ Net("getImportInGroup", r)
       /\ IF r.ok
          THEN /\ importState' = state
               /\ IF state = "Failed"
                  THEN UNCHANGED publishing /\ StepFails(PowerBiError("FAILED_IMPORT"))
                  ELSE IF continueImportPoll(state)
                  THEN publishing' = publishing + 1 /\ StepOk("getImportInGroup")
                  ELSE publishing' = 0 /\ StepOk(NextStep("getImportInGroup", config))
          ELSE UNCHANGED <<importState, publishing>> /\ StepFails(r.err)
  /\ UNCHANGED <<callVars, newGroup, pbiGroup, toCopy, added, datasetId,
                 datasource, counter, refreshed, pending, groups, http, unitVars>>

\* datasets = await this.getGroupDatasets(...);
\* datasetId = datasets.find((d) => d.name === datasetName).id
GetGroupDatasets ==
  /\ pc = "getGroupDatasets"
  /\ \E a \in AnswersNow, found \in BOOLEAN :
       LET r == Remote("getGroupDatasets", a) IN
       /\ Net("getGroupDatasets", r)
       /\ IF r.ok
          THEN IF found
               THEN datasetId' = "dataset" /\ StepOk(NextStep("getGroupDatasets", config))
               ELSE UNCHANGED datasetId /\ StepFails(TypeError)
          ELSE UNCHANGED datasetId /\ StepFails(r.err)
  /\ UNCHANGED <<callVars, newGroup, pbiGroup, importState, publishing, toCopy,
                 added, datasource, counter, refreshed, pending, groups, http, unitVars>>

\* await this.datasetTakeOver(pbiGroup.id, datasetId)
DatasetTakeOver == SimpleStep("datasetTakeOver")

\* await this.datasetUpdateParameters(...): returns at once, without a
\* request, if (!params || params.length === 0)
DatasetUpdateParameters ==
  /\ pc = "datasetUpdateParameters"
  /\ IF config.datasourceParams = <<>>
     THEN /\ StepOk(NextStep("datasetUpdateParameters", config))
          /\ UNCHANGED <<callVars, localVars, netVars, groups, http, unitVars>>
     ELSE SimpleStep("datasetUpdateParameters")

\* datasource = (await this.listDatasourcesInGroup(...))[0]; the next
\* statement reads datasource.gatewayId
ListDatasourcesInGroup ==
  /\ pc = "listDatasourcesInGroup"
  /\ \E a \in AnswersNow, n \in 0 .. MaxDatasources :
       LET r == Remote("listDatasourcesInGroup", a) IN
       /\ Net("listDatasourcesInGroup", r)
       /\ IF r.ok
          THEN IF n = 0
               THEN UNCHANGED datasource /\ StepFails(TypeError)
               ELSE datasource' = 1 /\ StepOk(NextStep("listDatasourcesInGroup", config))
          ELSE UNCHANGED datasource /\ StepFails(r.err)
  /\ UNCHANGED <<callVars, newGroup, pbiGroup, importState, publishing, toCopy,
                 added, datasetId, counter, refreshed, pending, groups, http, unitVars>>

\* await this.gatewayDatasourceUpdate(gatewayId, datasourceId, credentials)
GatewayDatasourceUpdate == SimpleStep("gatewayDatasourceUpdate")

\* await this.datasetRefresh(pbiGroup.id, datasetId)
DatasetRefresh == SimpleStep("datasetRefresh")


\* do { counter++; sleep 10 s; refreshes = await this.getDatasetRefreshes(...);
\*      refreshed = this.allRefreshesInFinalState(refreshes) }
\* while (counter < 72 && !refreshed)
GetDatasetRefreshes ==
  /\ pc = "getDatasetRefreshes"
  /\ \E a \in AnswersNow, refreshes \in RefreshListings :
       LET r == Remote("getDatasetRefreshes", a)
           final == allRefreshesInFinalState(refreshes)
       IN
       /\ Net("getDatasetRefreshes", r)
       /\ counter' = counter + 1
       /\ IF r.ok
          THEN /\ refreshed' = final
               /\ IF continueRefreshPoll(counter + 1, final)
                  THEN StepOk("getDatasetRefreshes")
                  ELSE StepOk(NextStep("getDatasetRefreshes", config))
          ELSE UNCHANGED refreshed /\ StepFails(r.err)
  /\ UNCHANGED <<callVars, newGroup, pbiGroup, importState, publishing, toCopy,
                 added, datasetId, datasource, pending, groups, http, unitVars>>

\* if (config.scheduledTimes) await this.datasetCreateRefreshSchedule(...)
DatasetCreateRefreshSchedule == SimpleStep("datasetCreateRefreshSchedule")

\* reports = await this.listReportsInGroupForDataset(...), which lists the
\* reports of the group and filters them by dataset; then
\* Promise.all(reports.map(reportConvertor)) starts one page listing per
\* report; with no report the result is returned
ListReportsInGroup ==
  /\ pc = "listReportsInGroup"
  /\ \E a \in AnswersNow, n \in 0 .. MaxReports :
       LET r == Remote("listReportsInGroup", a) IN
       /\ Net("listReportsInGroup", r)
       /\ IF r.ok
          THEN /\ pending' = 1 .. n
               /\ IF n = 0 THEN ImportReturns
                  ELSE StepOk(NextStep("listReportsInGroup", config))
          ELSE UNCHANGED pending /\ StepFails(r.err)
  /\ UNCHANGED <<callVars, newGroup, pbiGroup, importState, publishing, toCopy,
                 added, datasetId, datasource, counter, refreshed, groups, http, unitVars>>

\* reportConvertor: pages = await this.listReportPagesInGroup(groupId,
\* report.id); Promise.all resolves when the last listing has returned and
\* rejects with the first one that throws
ListReportPagesInGroup ==
  /\ pc = "listReportPagesInGroup"
  /\ \E a \in AnswersNow, report \in pending :
       LET r == Remote("listReportPagesInGroup", a) IN
       /\ Net("listReportPagesInGroup", r)
       /\ IF r.ok
          THEN /\ pending' = pending \ {report}
               /\ IF pending = {report} THEN ImportReturns
                  ELSE StepOk("listReportPagesInGroup")
          ELSE pending' = {} /\ StepFails(r.err)
  /\ UNCHANGED <<callVars, newGroup, pbiGroup, importState, publishing, toCopy,
                 added, datasetId, datasource, counter, refreshed, groups, http, unitVars>>

\* a step of initClientProject after the import throws e: into its catch
\* block with the group created
InitStepFails(e) ==
  /\ cause' = e
  /\ pc' = "deleteGroup"
  /\ UNCHANGED <<err, importErr, result>>

\* assignCapacityToGroup: validateCapacityId, which lists the capacities
\* and throws UNKNOWN_RESOURCE when the id is not among them
GetCapacities ==
  /\ pc = "getCapacities"
  /\ \E a \in AnswersNow, known \in BOOLEAN :
       LET r == Remote("getCapacities", a) IN
       /\ Net("getCapacities", r)
       /\ IF r.ok
          THEN IF known THEN StepOk("assignCapacityToGroup")
               ELSE InitStepFails(PowerBiError("UNKNOWN_RESOURCE"))
          ELSE InitStepFails(r.err)
  /\ UNCHANGED <<callVars, localVars, groups, http, unitVars>>

\* assignCapacityToGroup: the POST that assigns the capacity; then
\* initClientProject returns the result of the import
AssignCapacityToGroup ==
  /\ pc = "assignCapacityToGroup"
  /\ \E a \in AnswersNow :
       LET r == Remote("assignCapacityToGroup", a) IN
       /\ Net("assignCapacityToGroup", r)
       /\ IF r.ok
          THEN /\ pc' = "done"
               /\ result' = [returned |-> TRUE, dataRefreshed |-> refreshed]
               /\ UNCHANGED <<err, cause, importErr>>
          ELSE InitStepFails(r.err)
  /\ UNCHANGED <<callVars, localVars, groups, http, unitVars>>

\* initClientProject, catch block: if (newGroup) await
\* this.deleteGroup(newGroup.id); throw UNEXPECTED_CREATION_ERROR.  The
\* await is not guarded: when deleteGroup throws, its error leaves the call.
DeleteGroup ==
  /\ pc = "deleteGroup"
  /\ \E a \in AnswersNow :
       LET r == Remote("deleteGroup", a) IN
       /\ Net("deleteGroup", r)
       /\ pc' = "raised"
       /\ IF r.ok
          THEN groups' = groups \ {newGroup} /\ err' = initCatch(cause)
          ELSE UNCHANGED groups /\ err' = r.err
  /\ UNCHANGED <<callVars, localVars, cause, importErr, result, http, unitVars>>

Next ==
  \/ \E cfg \in Configs : CallInitClientProject(cfg)
  \/ \E gid \in {"", "existing", "unknown"}, cfg \in Configs :
       CallImportPbixToWorkspace(gid, cfg)
  \/ CreateGroup
  \/ ListGroups
  \/ GetGroupUsersSource
  \/ GetGroupUsersTarget
  \/ AddGroupUser
  \/ GetTemplate
  \/ ImportInGroup
  \/ GetImportInGroup
  \/ GetGroupDatasets
  \/ DatasetTakeOver
  \/ DatasetUpdateParameters
  \/ ListDatasourcesInGroup
  \/ GatewayDatasourceUpdate
  \/ DatasetRefresh
  \/ GetDatasetRefreshes
  \/ DatasetCreateRefreshSchedule
  \/ ListReportsInGroup
  \/ ListReportPagesInGroup
  \/ GetCapacities
  \/ AssignCapacityToGroup
  \/ DeleteGroup

Spec == Init /\ [][Next]_vars

\* the workflow when every remote request returns: a call that can take a
\* step takes one; the import status leaves "Publishing" after
\* MaxImportPolls polls at the latest
SpecLive == Init /\ [][Next]_vars /\ WF_vars(Next)

(* ------------- HttpHandler.handleHttpCall on its own ------------------- *)
\* a call of handleHttpCall with a path and the statuses the server answers
\* the first and the second attempt with
InitHttp ==
  /\ InitWorkflow
  /\ \E url \in Urls, s1 \in HttpStatuses, s2 \in HttpStatuses :
       http = [phase |-> "called", url |-> url, s1 |-> s1, s2 |-> s2,
               attempts |-> <<>>, ok |-> TRUE, err |-> NoError]
  /\ UnitsIdle("none")

\* HttpHandler.handleHttpCall(path, requestInit) runs to its end
HandleHttpCall ==
  /\ http.phase = "called"
  /\ http' = [http EXCEPT !.phase = "returned",
                          !.attempts = handleHttpCall(http.url, http.s1, http.s2).attempts,
                          !.ok = handleHttpCall(http.url, http.s1, http.s2).ok,
                          !.err = handleHttpCall(http.url, http.s1, http.s2).err]
  /\ UNCHANGED <<workflowVars, unitVars>>

NextHttp == HandleHttpCall

SpecHttp == InitHttp /\ [][NextHttp]_vars

(* ------------- BaseAzureAuthClient.generateValidToken on its own ------- *)
\* the clock of the call runs over 0 .. MaxClock (minutes)
MaxClock == 3
\* part_006:13 TIME_SHIFT_CONSTANT = 5 * 60 * 1000 ms, in minutes
TIME_SHIFT_CONSTANT == 5
\* the expiry times tokens carry: before, at and after now + TIME_SHIFT_CONSTANT
ExpiryTimes == 0 .. MaxClock + TIME_SHIFT_CONSTANT + 1

\* currentToken: null / undefined, or an AzureAccessToken(accessToken, expireAt)
NullToken == [present |-> FALSE, accessToken |-> "", expireAt |-> 0]
AzureAccessToken(accessToken, expireAt) ==
  [present |-> TRUE, accessToken |-> accessToken, expireAt |-> expireAt]
CurrentTokens ==
  {NullToken} \cup {AzureAccessToken(a, e) : a \in {"", "cached"}, e \in ExpiryTimes}

\* the outcomes of cca.acquireTokenByClientCredential: it rejects, it
\* resolves without an accessToken, or it resolves with a token and expiresOn
TokenResponses ==
  {[kind |-> "rejected", expiresOn |-> 0], [kind |-> "empty", expiresOn |-> 0]}
  \cup {[kind |-> "token", expiresOn |-> e] : e \in {0, MaxClock + TIME_SHIFT_CONSTANT + 1}}

\* faulty variant of isValidTokenAt: a token expiring exactly
\* TIME_SHIFT_CONSTANT from now is taken as valid
isValidTokenAtInclusive(token, now) ==
  token.accessToken # "" /\ now + TIME_SHIFT_CONSTANT <= token.expireAt
\* isValidToken(token) with Date.now() = now:
\* !!token.accessToken && Date.now() + TIME_SHIFT_CONSTANT < token.expireAt
isValidTokenAt(token, now) ==
  token.accessToken # "" /\ now + TIME_SHIFT_CONSTANT < token.expireAt

\* getToken(): one acquireTokenByClientCredential; a rejection and a
\* response without accessToken are thrown as AzureError
getToken(response) ==
  IF response.kind = "token"
  THEN [ok |-> TRUE, err |-> NoError, accessToken |-> "minted", expiresOn |-> response.expiresOn]
  ELSE [ok |-> FALSE, err |-> AzureError, accessToken |-> "", expiresOn |-> 0]

\* generateValidToken(currentToken) at time now: currentToken when
\* currentToken && isValidToken(currentToken), else the token built from
\* getToken(); exchanges counts the calls of getToken
generateValidTokenAt(currentToken, now, response) ==
  IF currentToken.present /\ isValidTokenAt(currentToken, now)
  THEN [ok |-> TRUE, err |-> NoError, token |-> currentToken, exchanges |-> 0]
  ELSE IF getToken(response).ok
       THEN [ok |-> TRUE, err |-> NoError,
             token |-> AzureAccessToken(getToken(response).accessToken,
                                        getToken(response).expiresOn),
             exchanges |-> 1]
       ELSE [ok |-> FALSE, err |-> getToken(response).err, token |-> NullToken,
             exchanges |-> 1]

\* a call of generateValidToken with a previous token, at a time, with the
\* identity provider's answer at hand
InitToken ==
  /\ InitWorkflow
  /\ http = HttpIdle
  /\ UnitsIdle("tok")
  /\ \E t \in CurrentTokens, now \in 0 .. MaxClock, response \in TokenResponses :
       tok = [phase |-> "called", currentToken |-> t, now |-> now,
              response |-> response, ok |-> TRUE, err |-> NoError,
              token |-> NullToken, exchanges |-> 0]

\* generateValidToken(currentToken) runs to its end
GenerateValidToken ==
  /\ tok.phase = "called"
  /\ LET out == generateValidTokenAt(tok.currentToken, tok.now, tok.response) IN
     tok' = [tok EXCEPT !.phase = "returned", !.ok = out.ok, !.err = out.err,
                        !.token = out.token, !.exchanges = out.exchanges]
  /\ UNCHANGED <<workflowVars, http, shared, tpl, copy, fin, rep, cap, fac, lst, fab, race, dst, dsr, rty, dto, del, rpl, bear, gdr>>

NextToken == GenerateValidToken

SpecToken == InitToken /\ [][NextToken]_vars

(* ------- two PowerBiService instances and powerBiRestConfig ------------ *)
\* facade calls made on the two services altogether
MaxServiceCalls == 6
\* two PowerBiService instances, each built over its own PowerBiClient
Services == {"a", "b"}

\* powerBiRestConfig.authorizationToken of the module: who minted it and
\* whether isValidToken holds for it now; at load accessToken is ''
InitShared ==
  /\ InitWorkflow
  /\ http = HttpIdle
  /\ UnitsIdle("shared")
  /\ shared = [phase |-> "running",
               cache |-> [minter |-> "none", state |-> "empty"],
               sent |-> {}, overwritten |-> {}, calls |-> 0]

\* a facade call on service svc: handleToken passes the module's cached
\* token to the service's own provider (this._azurePbiClient), stores what
\* generateValidToken returns in powerBiRestConfig, and the request is
\* sent with that token as bearer
ServiceCall(svc, exchangeOk) ==
  /\ shared.phase = "running"
  /\ shared.calls < MaxServiceCalls
  /\ LET t == generateValidToken(shared.cache.state, exchangeOk)
         bearer == IF t.exchanged THEN [minter |-> svc, state |-> "valid"]
                   ELSE shared.cache
     IN
     shared' =
       IF t.ok
       THEN [shared EXCEPT
               !.calls = shared.calls + 1,
               !.cache = bearer,
               !.sent = shared.sent \cup {[service |-> svc, minter |-> bearer.minter]},
               !.overwritten =
                 IF t.exchanged /\ shared.cache.minter \notin {"none", svc}
                 THEN shared.overwritten \cup {[by |-> svc, minter |-> shared.cache.minter]}
                 ELSE shared.overwritten]
       ELSE [shared EXCEPT !.calls = shared.calls + 1]
  /\ UNCHANGED <<workflowVars, http, tok, tpl, copy, fin, rep, cap, fac, lst, fab, race, dst, dsr, rty, dto, del, rpl, bear, gdr>>

\* the clock passes the expiry margin of the cached token
SharedTokenExpires ==
  /\ shared.phase = "running"
  /\ shared.cache.state = "valid"
  /\ shared' = [shared EXCEPT !.cache.state = "expired"]
  /\ UNCHANGED <<workflowVars, http, tok, tpl, copy, fin, rep, cap, fac, lst, fab, race, dst, dsr, rty, dto, del, rpl, bear, gdr>>

NextShared ==
  \/ \E svc \in Services, exchangeOk \in BOOLEAN : ServiceCall(svc, exchangeOk)
  \/ SharedTokenExpires

SpecShared == InitShared /\ [][NextShared]_vars

(* -------------------- PowerBiConfigDto.getTemplate --------------------- *)
\* getTemplate() calls made on the one config instance
MaxTemplateCalls == 4

\* faulty variant of templateLoaded: the stored template is never used
templateLoadedNever(template) == FALSE
\* getTemplate: !(this.template === undefined || this.template === null);
\* 0 stands for the unset field, n > 0 for the Buffer of the n-th load
templateLoaded(template) == template # 0

\* a new PowerBiConfigDto: template unset, the supplier not yet invoked
InitTemplate ==
  /\ InitWorkflow
  /\ http = HttpIdle
  /\ UnitsIdle("tpl")
  /\ tpl = [phase |-> "running", template |-> 0, loads |-> 0, calls |-> 0,
            inflight |-> {}, returned |-> {}, overlapped |-> FALSE,
            rejected |-> FALSE]

\* getTemplate() is called and runs to its first await: with the template
\* stored it returns it; otherwise it invokes this._templateSupplier and
\* waits for it.  The call overlaps when an earlier one is still waiting.
GetTemplateCalled ==
  /\ tpl.phase = "running"
  /\ tpl.calls < MaxTemplateCalls
  /\ tpl' =
       IF templateLoaded(tpl.template)
       THEN [tpl EXCEPT
               !.calls = tpl.calls + 1,
               !.returned = tpl.returned \cup
                              {[call |-> tpl.calls + 1, bytes |-> tpl.template]},
               !.overlapped = tpl.overlapped \/ tpl.inflight # {}]
       ELSE [tpl EXCEPT
               !.calls = tpl.calls + 1,
               !.loads = tpl.loads + 1,
               !.inflight = tpl.inflight \cup
                              {[call |-> tpl.calls + 1, load |-> tpl.loads + 1]},
               !.overlapped = tpl.overlapped \/ tpl.inflight # {}]
  /\ UNCHANGED <<workflowVars, http, tok, shared, copy, fin, rep, cap, fac, lst, fab, race, dst, dsr, rty, dto, del, rpl, bear, gdr>>

\* the supplier resolves with the bytes: this.template = ...; return it
TemplateSupplierResolves ==
  /\ tpl.phase = "running"
  /\ \E c \in tpl.inflight :
       tpl' = [tpl EXCEPT
                 !.template = c.load,
                 !.inflight = tpl.inflight \ {c},
                 !.returned = tpl.returned \cup {[call |-> c.call, bytes |-> c.load]}]
  /\ UNCHANGED <<workflowVars, http, tok, shared, copy, fin, rep, cap, fac, lst, fab, race, dst, dsr, rty, dto, del, rpl, bear, gdr>>

\* the supplier rejects: getTemplate rejects and the field stays unset
TemplateSupplierRejects ==
  /\ tpl.phase = "running"
  /\ \E c \in tpl.inflight :
       tpl' = [tpl EXCEPT !.inflight = tpl.inflight \ {c}, !.rejected = TRUE]
  /\ UNCHANGED <<workflowVars, http, tok, shared, copy, fin, rep, cap, fac, lst, fab, race, dst, dsr, rty, dto, del, rpl, bear, gdr>>

NextTemplate ==
  \/ GetTemplateCalled
  \/ TemplateSupplierResolves
  \/ TemplateSupplierRejects

SpecTemplate == InitTemplate /\ [][NextTemplate]_vars

(* ------------------ PowerBiService.copyUsersFromGroup ------------------ *)
\* identifiers of the users of the two groups
MaxCopyUsers == 2
CopyUsers == 1 .. MaxCopyUsers
\* the listings of the source group: an identifier may be listed twice
CopySources == UNION {[1 .. n -> CopyUsers] : n \in 0 .. MaxCopyUsers + 1}

\* faulty variant of alreadyInGroup: only the snapshot of the target
\* group counts, not what this copy has added
alreadyInGroupSnapshotOnly(user, addedAddedUsers) == user \in copy.snapshot
\* copyUsersFromGroup: if (addedAddedUsers.has(user.identifier))
alreadyInGroup(user, addedAddedUsers) == user \in addedAddedUsers

\* a source group with its listing and a target group with its members
InitCopy ==
  /\ InitWorkflow
  /\ http = HttpIdle
  /\ UnitsIdle("copy")
  /\ \E source \in CopySources, members \in SUBSET CopyUsers :
       copy = [phase |-> "idle", run |-> 0, source |-> source, members |-> members,
               snapshot |-> {}, addedAddedUsers |-> {}, rest |-> <<>>,
               adds |-> <<>>, skipped |-> {}]

\* copyUsersFromGroup(source, target) is called: the two getGroupUsers
\* requests; addedAddedUsers is the set of the target's identifiers.  A
\* second copy is called after the first one returned.
CopyUsersCalled(ok) ==
  /\ copy.phase \in {"idle", "returned"}
  /\ copy.run < 2
  /\ copy' =
       IF ok
       THEN [copy EXCEPT !.phase = "copying", !.run = copy.run + 1,
                         !.snapshot = copy.members,
                         !.addedAddedUsers = copy.members,
                         !.rest = copy.source, !.adds = <<>>, !.skipped = {}]
       ELSE [copy EXCEPT !.phase = "raised", !.run = copy.run + 1,
                         !.snapshot = {}, !.addedAddedUsers = {},
                         !.rest = <<>>, !.adds = <<>>, !.skipped = {}]
  /\ UNCHANGED <<workflowVars, http, tok, shared, tpl, fin, rep, cap, fac, lst, fab, race, dst, dsr, rty, dto, del, rpl, bear, gdr>>

\* one iteration of for (const user of users): the user is skipped, or
\* addGroupUser is awaited (the platform adds the member) and the
\* identifier is put into addedAddedUsers; a failing request ends the copy
CopyVisitsUser(ok) ==
  /\ copy.phase = "copying"
  /\ copy.rest # <<>>
  /\ LET user == Head(copy.rest) IN
     copy' =
       IF alreadyInGroup(user, copy.addedAddedUsers)
       THEN [copy EXCEPT !.rest = Tail(copy.rest),
                         !.skipped = copy.skipped \cup {user}]
       ELSE IF ok
       THEN [copy EXCEPT !.rest = Tail(copy.rest),
                         !.adds = Append(copy.adds, user),
                         !.members = copy.members \cup {user},
                         !.addedAddedUsers = copy.addedAddedUsers \cup {user}]
       ELSE [copy EXCEPT !.phase = "raised", !.adds = Append(copy.adds, user)]
  /\ UNCHANGED <<workflowVars, http, tok, shared, tpl, fin, rep, cap, fac, lst, fab, race, dst, dsr, rty, dto, del, rpl, bear, gdr>>

\* the loop is over: return addedAddedUsers
CopyUsersReturns ==
  /\ copy.phase = "copying"
  /\ copy.rest = <<>>
  /\ copy' = [copy EXCEPT !.phase = "returned"]
  /\ UNCHANGED <<workflowVars, http, tok, shared, tpl, fin, rep, cap, fac, lst, fab, race, dst, dsr, rty, dto, del, rpl, bear, gdr>>

NextCopy ==
  \/ \E ok \in BOOLEAN : CopyUsersCalled(ok)
  \/ \E ok \in BOOLEAN : CopyVisitsUser(ok)
  \/ CopyUsersReturns

SpecCopy == InitCopy /\ [][NextCopy]_vars

(* --------------- PowerBiService.allRefreshesInFinalState --------------- *)
\* refresh records in the list handed to allRefreshesInFinalState
MaxFinalRecords == 3
\* the statuses a record may carry: those of PBIRefreshStatusEnum and one
\* the enum does not know
RecordStatuses == RefreshStatuses \cup {"Cancelled"}
\* the argument: null / undefined, or a list of records
RefreshArguments ==
  {[present |-> FALSE, list |-> <<>>]}
  \cup {[present |-> TRUE, list |-> l] :
          l \in UNION {[1 .. n -> RecordStatuses] : n \in 0 .. MaxFinalRecords}}

\* allRefreshesInFinalState(refreshes): refreshes ? <all final> : false
allRefreshesInFinalStateOrAbsent(refreshes) ==
  IF refreshes.present THEN allRefreshesInFinalState(refreshes.list) ELSE FALSE

InitFinal ==
  /\ InitWorkflow
  /\ http = HttpIdle
  /\ UnitsIdle("fin")
  /\ \E refreshes \in RefreshArguments :
       fin = [phase |-> "called", refreshes |-> refreshes, out |-> FALSE]

\* allRefreshesInFinalState(refreshes) returns
AllRefreshesInFinalState ==
  /\ fin.phase = "called"
  /\ fin' = [fin EXCEPT !.phase = "returned",
                        !.out = allRefreshesInFinalStateOrAbsent(fin.refreshes)]
  /\ UNCHANGED <<workflowVars, http, tok, shared, tpl, copy, rep, cap, fac, lst, fab, race, dst, dsr, rty, dto, del, rpl, bear, gdr>>

NextFinal == AllRefreshesInFinalState

SpecFinal == InitFinal /\ [][NextFinal]_vars

(* --------------------- the schedule of a config ------------------------ *)
\* the IDatasetSchedule a PowerBiConfigDto is built with: none, or times
\* and days, each a list ("03:00" and "Monday" stand for non-empty lists,
\* "empty" for [], "undefined" for a missing field)
Schedules ==
  {[present |-> FALSE, times |-> "undefined", days |-> "undefined"]}
  \cup [present : {TRUE}, times : {"undefined", "empty", "03:00"},
        days : {"undefined", "empty", "Monday"}]

\* PowerBiConfigDto constructor: this.scheduledTimes =
\* schedule && schedule.times && schedule.times.length > 0 ? schedule.times : undefined
scheduledTimesOf(schedule) ==
  IF schedule.present /\ schedule.times \notin {"undefined", "empty"}
  THEN schedule.times ELSE "undefined"

\* PowerBiConfigDto constructor: this.scheduledDays, likewise
scheduledDaysOf(schedule) ==
  IF schedule.present /\ schedule.days \notin {"undefined", "empty"}
  THEN schedule.days ELSE "undefined"

\* datasetCreateRefreshSchedule: the body of the PATCH request
refreshScheduleBody(times, days) ==
  [enabled |-> TRUE, times |-> times, days |-> days,
   localTimeZoneId |-> "UTC", notifyOption |-> "NoNotification"]

(* ------------------ the reports of a provisioned dataset ---------------- *)
\* the number of reports the workspace lists
MaxListedReports == 3

ReportIds == 1 .. MaxListedReports
ReportDatasets == {"ds1", "ds2"}

\* the PBIReport listings of a workspace: reports with distinct ids, each
\* bound to a dataset
ReportListings ==
  {listing \in UNION {[1 .. n -> [id : ReportIds, datasetId : ReportDatasets]] :
                        n \in 0 .. MaxListedReports} :
     \A i, j \in DOMAIN listing : listing[i].id = listing[j].id => i = j}

\* the page lists the platform answers with (page names)
PageLists == {<<>>, <<"ReportSection1", "ReportSection2">>}

\* faulty variant of listReportsInGroupForDataset: no filter on the dataset
listReportsInGroupUnfiltered(listing, dataset) == listing

\* listReportsInGroupForDataset: (await this.listReportsInGroup(groupId))
\*   .filter((report) => report.datasetId === datasetId)
listReportsInGroupForDataset(listing, dataset) ==
  SelectSeq(listing, LAMBDA report : report.datasetId = dataset)

\* reportConvertor: the public shape of a report with its pages
reportConvertor(report, pages) == [id |-> report.id, pages |-> pages]

InitReports ==
  /\ InitWorkflow
  /\ http = HttpIdle
  /\ UnitsIdle("rep")
  /\ \E listing \in ReportListings, dataset \in ReportDatasets :
       rep = [phase |-> "listing", listing |-> listing, dataset |-> dataset,
              reports |-> <<>>, waiting |-> {}, pages |-> <<>>,
              requested |-> {}, result |-> <<>>]

\* importPbixToWorkspace: reports = await listReportsInGroupForDataset(
\* pbiGroup.id, datasetId), then reports.map(reportConvertor) starts one
\* listReportPagesInGroup call per report
ListReportsInGroupForDataset ==
  /\ rep.phase = "listing"
  /\ LET reports == listReportsInGroupForDataset(rep.listing, rep.dataset) IN
     rep' = [rep EXCEPT !.phase = "pages",
                        !.reports = reports,
                        !.waiting = DOMAIN reports,
                        !.pages = [i \in DOMAIN reports |-> <<>>]]
  /\ UNCHANGED <<workflowVars, http, tok, shared, tpl, copy, fin, cap, fac, lst, fab, race, dst, dsr, rty, dto, del, rpl, bear, gdr>>

\* reportConvertor of the i-th report: its listReportPagesInGroup(groupId,
\* report.id) call returns; the calls of Promise.all return in any order
ReportPagesReturn ==
  /\ rep.phase = "pages"
  /\ \E i \in rep.waiting, pages \in PageLists :
       rep' = [rep EXCEPT !.waiting = @ \ {i},
                          !.pages[i] = pages,
                          !.requested = @ \cup {[reportId |-> rep.reports[i].id,
                                                 pages |-> pages]}]
  /\ UNCHANGED <<workflowVars, http, tok, shared, tpl, copy, fin, cap, fac, lst, fab, race, dst, dsr, rty, dto, del, rpl, bear, gdr>>

\* one listReportPagesInGroup call throws: Promise.all rejects and
\* importPbixToWorkspace returns no result
ReportPagesFails ==
  /\ rep.phase = "pages"
  /\ rep.waiting # {}
  /\ rep' = [rep EXCEPT !.phase = "raised", !.waiting = {}]
  /\ UNCHANGED <<workflowVars, http, tok, shared, tpl, copy, fin, cap, fac, lst, fab, race, dst, dsr, rty, dto, del, rpl, bear, gdr>>

\* Promise.all resolves: reports: the converted reports, in the order of
\* `reports`
ReportsAssembled ==
  /\ rep.phase = "pages"
  /\ rep.waiting = {}
  /\ rep' = [rep EXCEPT !.phase = "done",
                        !.result = [i \in DOMAIN rep.reports |->
                                      reportConvertor(rep.reports[i], rep.pages[i])]]
  /\ UNCHANGED <<workflowVars, http, tok, shared, tpl, copy, fin, cap, fac, lst, fab, race, dst, dsr, rty, dto, del, rpl, bear, gdr>>

NextReports ==
  \/ ListReportsInGroupForDataset
  \/ ReportPagesReturn
  \/ ReportPagesFails
  \/ ReportsAssembled

SpecReports == InitReports /\ [][NextReports]_vars

(* ------------------ assignCapacityToGroup on its own -------------------- *)
\* the number of capacities the platform lists
MaxCapacities == 3

CapacityIds == {"c1", "c2", "c3"}

\* what getCapacities returns on a successful call: response.value, a list
\* of capacity ids, or undefined when the envelope has no value
CapacityAnswers ==
  {[present |-> FALSE, list |-> <<>>]}
  \cup {[present |-> TRUE, list |-> l] :
          l \in UNION {[1 .. n -> CapacityIds] : n \in 0 .. MaxCapacities}}

\* faulty variant of capacityFound: every id is accepted
capacityFoundAlways(capacities, capacityId) == TRUE

\* validateCapacityId: capacities.find((capacity) => capacity.id === capacityId)
capacityFound(capacities, capacityId) ==
  \E i \in DOMAIN capacities : capacities[i] = capacityId

InitCapacity ==
  /\ InitWorkflow
  /\ http = HttpIdle
  /\ UnitsIdle("cap")
  /\ \E gid \in {"", "g1"}, capacityId \in CapacityIds \cup {""} :
       cap = [phase |-> "called", groupId |-> gid, capacityId |-> capacityId,
              listed |-> [present |-> FALSE, list |-> <<>>],
              requests |-> <<>>, err |-> NoError, out |-> ""]

\* assignCapacityToGroup: if (groupId && capacityId) ... else throw
\* MISSING_REQUIRED_PARAM; validateCapacityId then calls getCapacities
AssignCapacityCalled ==
  /\ cap.phase = "called"
  /\ IF cap.groupId # "" /\ cap.capacityId # ""
     THEN cap' = [cap EXCEPT !.phase = "getCapacities",
                             !.requests = Append(@, "getCapacities")]
     ELSE cap' = [cap EXCEPT !.phase = "raised",
                             !.err = PowerBiError("MISSING_REQUIRED_PARAM")]
  /\ UNCHANGED <<workflowVars, http, tok, shared, tpl, copy, fin, rep, fac, lst, fab, race, dst, dsr, rty, dto, del, rpl, bear, gdr>>

\* getCapacities returns response.value and validateCapacityId looks the id
\* up: UNKNOWN_RESOURCE when it is not found, a TypeError when the value is
\* undefined; a failed call throws its error
GetCapacitiesReturns ==
  /\ cap.phase = "getCapacities"
  /\ \/ \E s \in FailedStatuses :
          cap' = [cap EXCEPT !.phase = "raised", !.err = HttpError(s)]
     \/ \E answer \in CapacityAnswers :
          IF ~answer.present
          THEN cap' = [cap EXCEPT !.phase = "raised", !.err = TypeError]
          ELSE IF capacityFound(answer.list, cap.capacityId)
          THEN cap' = [cap EXCEPT !.phase = "assign", !.listed = answer,
                                  !.requests = Append(@, "assignToCapacity")]
          ELSE cap' = [cap EXCEPT !.phase = "raised", !.listed = answer,
                                  !.err = PowerBiError("UNKNOWN_RESOURCE")]
  /\ UNCHANGED <<workflowVars, http, tok, shared, tpl, copy, fin, rep, fac, lst, fab, race, dst, dsr, rty, dto, del, rpl, bear, gdr>>

\* the POST of GROUPS_ASSIGN_TO_CAPACITY returns: return capacityId, or
\* the error of the call
AssignToCapacityReturns ==
  /\ cap.phase = "assign"
  /\ \/ cap' = [cap EXCEPT !.phase = "returned", !.out = cap.capacityId]
     \/ \E s \in FailedStatuses :
          cap' = [cap EXCEPT !.phase = "raised", !.err = HttpError(s)]
  /\ UNCHANGED <<workflowVars, http, tok, shared, tpl, copy, fin, rep, fac, lst, fab, race, dst, dsr, rty, dto, del, rpl, bear, gdr>>

NextCapacity ==
  \/ AssignCapacityCalled
  \/ GetCapacitiesReturns
  \/ AssignToCapacityReturns

SpecCapacity == InitCapacity /\ [][NextCapacity]_vars

(* --------------------- the facade calls on their own -------------------- *)
\* the facade operations of PowerBiService that take arguments: the
\* arguments their signature requires, and those their guard checks before
\* handleToken is called
FacadeSignatures ==
  [getGroup |-> [required |-> {"groupId"}, checked |-> {"groupId"}],
   createGroup |-> [required |-> {"name"}, checked |-> {"name"}],
   deleteGroup |-> [required |-> {"groupId"}, checked |-> {"groupId"}],
   getGroupUsers |-> [required |-> {"groupId"}, checked |-> {"groupId"}],
   addGroupUser |-> [required |-> {"groupId", "user"}, checked |-> {"groupId"}],
   exportReport |-> [required |-> {"groupId", "reportId"}, checked |-> {}],
   listReportsInGroupForDataset |->
     [required |-> {"groupId", "datasetId"}, checked |-> {"groupId"}],
   listReportsInGroup |-> [required |-> {"groupId"}, checked |-> {"groupId"}],
   listReportPagesInGroup |->
     [required |-> {"groupId", "reportId"}, checked |-> {"groupId", "reportId"}],
   listDatasetsInGroup |-> [required |-> {"groupId"}, checked |-> {"groupId"}],
   listDatasourcesInGroup |->
     [required |-> {"groupId", "datasetId"}, checked |-> {"groupId", "datasetId"}],
   datasetTakeOver |->
     [required |-> {"groupId", "datasetId"}, checked |-> {"groupId"}],
   datasetUpdateParameters |->
     [required |-> {"groupId", "datasetId"}, checked |-> {"groupId"}],
   datasetUpdateDatasource |->
     [required |-> {"groupId", "datasetId"}, checked |-> {"groupId", "datasetId"}],
   datasetGetBoundGatewayDatasources |->
     [required |-> {"groupId", "datasetId"}, checked |-> {"groupId", "datasetId"}],
   datasetRefresh |->
     [required |-> {"groupId", "datasetId"}, checked |-> {"groupId", "datasetId"}],
   datasetCreateRefreshSchedule |->
     [required |-> {"groupId", "datasetId"}, checked |-> {"groupId", "datasetId"}],
   getDatasetRefreshSchedule |->
     [required |-> {"groupId", "datasetId"}, checked |-> {"groupId", "datasetId"}],
   getDatasetRefreshes |->
     [required |-> {"groupId", "datasetId"}, checked |-> {"groupId", "datasetId"}],
   getGroupDatasets |-> [required |-> {"groupId"}, checked |-> {"groupId"}],
   cloneReportInGroup |->
     [required |-> {"groupId", "reportId", "reportName", "targetGroupId"},
      checked |-> {"groupId", "reportId", "reportName", "targetGroupId"}],
   createDatasource |->
     [required |-> {"gatewayId", "connectionData"},
      checked |-> {"gatewayId", "connectionData"}],
   importInGroup |-> [required |-> {"groupId", "file"}, checked |-> {"groupId"}],
   getImportInGroup |->
     [required |-> {"groupId", "importId"}, checked |-> {"groupId", "importId"}],
   generateEmbedToken |->
     [required |-> {"groupId", "reportId"}, checked |-> {"groupId", "reportId"}],
   assignCapacityToGroup |->
     [required |-> {"groupId", "capacityId"}, checked |-> {"groupId", "capacityId"}]]

FacadeOperations == DOMAIN FacadeSignatures

\* the guard at the head of a facade operation: true when every argument
\* it checks is given
facadeGuard(op, missing) == FacadeSignatures[op].checked \cap missing = {}

\* faulty variant of returnsWithoutRequest: the request is built whatever
\* the parameters
returnsWithoutRequestNever(noParams) == FALSE

\* datasetUpdateParameters: if (!params || params.length === 0) return;
returnsWithoutRequest(noParams) == noParams

InitFacade ==
  /\ InitWorkflow
  /\ http = HttpIdle
  /\ UnitsIdle("fac")
  /\ \E op \in FacadeOperations :
       \E missing \in SUBSET FacadeSignatures[op].required, noParams \in BOOLEAN :
         fac = [phase |-> "called", op |-> op, missing |-> missing,
                noParams |-> noParams /\ op = "datasetUpdateParameters",
                tokenRequests |-> 0, httpRequests |-> 0, err |-> NoError]

\* the operation is entered: its guard passes and it calls handleToken, or
\* it throws MISSING_REQUIRED_PARAM; datasetUpdateParameters returns at once
\* when there are no parameters to update
FacadeCalled ==
  /\ fac.phase = "called"
  /\ IF ~facadeGuard(fac.op, fac.missing)
     THEN fac' = [fac EXCEPT !.phase = "raised",
                             !.err = PowerBiError("MISSING_REQUIRED_PARAM")]
     ELSE IF returnsWithoutRequest(fac.noParams)
     THEN fac' = [fac EXCEPT !.phase = "returned"]
     ELSE fac' = [fac EXCEPT !.phase = "token", !.tokenRequests = @ + 1]
  /\ UNCHANGED <<workflowVars, http, tok, shared, tpl, copy, fin, rep, cap, lst, fab, race, dst, dsr, rty, dto, del, rpl, bear, gdr>>

\* handleToken returns the bearer token and the request is sent, or the
\* token provider throws
FacadeTokenReturns ==
  /\ fac.phase = "token"
  /\ \/ fac' = [fac EXCEPT !.phase = "request", !.httpRequests = @ + 1]
     \/ fac' = [fac EXCEPT !.phase = "raised", !.err = AzureError]
  /\ UNCHANGED <<workflowVars, http, tok, shared, tpl, copy, fin, rep, cap, lst, fab, race, dst, dsr, rty, dto, del, rpl, bear, gdr>>

\* handleHttpCall returns the body or throws the error of the call
FacadeHttpReturns ==
  /\ fac.phase = "request"
  /\ \/ fac' = [fac EXCEPT !.phase = "returned"]
     \/ \E s \in FailedStatuses :
          fac' = [fac EXCEPT !.phase = "raised", !.err = HttpError(s)]
  /\ UNCHANGED <<workflowVars, http, tok, shared, tpl, copy, fin, rep, cap, lst, fab, race, dst, dsr, rty, dto, del, rpl, bear, gdr>>

NextFacade ==
  \/ FacadeCalled
  \/ FacadeTokenReturns
  \/ FacadeHttpReturns

SpecFacade == InitFacade /\ [][NextFacade]_vars

(* -------------------- the listing calls on their own -------------------- *)
\* the number of items in the value of a listing response
MaxListed == 2

ListedItems == {"x", "y"}

\* what handleHttpResponse hands back for a successful response: '' for an
\* empty body, null for the body null, an object without value, with value
\* null, or with a list as its value
Envelopes ==
  {[body |-> b, value |-> <<>>] : b \in {"empty", "null", "noValue", "nullValue"}}
  \cup {[body |-> "value", value |-> l] :
          l \in UNION {[1 .. n -> ListedItems] : n \in 0 .. MaxListed}}

\* what a listing operation hands its caller
Sequence(list) == [kind |-> "sequence", list |-> list]
Undefined == [kind |-> "undefined", list |-> <<>>]
Null == [kind |-> "null", list |-> <<>>]
Throws == [kind |-> "TypeError", list |-> <<>>]

\* listGroups, listReportsInGroup, listReportPagesInGroup,
\* listDatasetsInGroup, listDatasourcesInGroup:
\* respBody.value && respBody.value.length > 0 ? respBody.value : new Array()
unwrapWithDefault(envelope) ==
  CASE envelope.body = "null" -> Throws
    [] envelope.body = "value" -> Sequence(envelope.value)
    [] OTHER -> Sequence(<<>>)

\* getDatasetRefreshes: response?.value ? response.value : new Array()
unwrapOptional(envelope) ==
  IF envelope.body = "value" THEN Sequence(envelope.value) ELSE Sequence(<<>>)

\* getGroupUsers, getGroupDatasets: return response.value
unwrapValue(envelope) ==
  CASE envelope.body = "null" -> Throws
    [] envelope.body = "value" -> Sequence(envelope.value)
    [] envelope.body = "nullValue" -> Null
    [] OTHER -> Undefined

ListingOperations ==
  {"listGroups", "listReportsInGroup", "listReportPagesInGroup",
   "listDatasetsInGroup", "listDatasourcesInGroup", "getDatasetRefreshes",
   "getGroupUsers", "getGroupDatasets"}

\* the value a listing operation returns for the envelope of its response
listingResult(op, envelope) ==
  CASE op \in {"getGroupUsers", "getGroupDatasets"} -> unwrapValue(envelope)
    [] op = "getDatasetRefreshes" -> unwrapOptional(envelope)
    [] OTHER -> unwrapWithDefault(envelope)

InitListing ==
  /\ InitWorkflow
  /\ http = HttpIdle
  /\ UnitsIdle("lst")
  /\ \E op \in ListingOperations :
       lst = [phase |-> "request", op |-> op,
              envelope |-> [body |-> "empty", value |-> <<>>],
              out |-> Undefined, err |-> NoError]

\* handleHttpCall returns the parsed body of a successful response, or
\* throws the error of the call
ListingResponds ==
  /\ lst.phase = "request"
  /\ \/ \E envelope \in Envelopes :
          lst' = [lst EXCEPT !.phase = "unwrap", !.envelope = envelope]
     \/ \E s \in FailedStatuses :
          lst' = [lst EXCEPT !.phase = "raised", !.err = HttpError(s)]
  /\ UNCHANGED <<workflowVars, http, tok, shared, tpl, copy, fin, rep, cap, fac, fab, race, dst, dsr, rty, dto, del, rpl, bear, gdr>>

\* the operation unwraps the envelope and returns
ListingReturns ==
  /\ lst.phase = "unwrap"
  /\ LET out == listingResult(lst.op, lst.envelope) IN
     IF out = Throws
     THEN lst' = [lst EXCEPT !.phase = "raised", !.err = TypeError]
     ELSE lst' = [lst EXCEPT !.phase = "returned", !.out = out]
  /\ UNCHANGED <<workflowVars, http, tok, shared, tpl, copy, fin, rep, cap, fac, fab, race, dst, dsr, rty, dto, del, rpl, bear, gdr>>

NextListing ==
  \/ ListingResponds
  \/ ListingReturns

SpecListing == InitListing /\ [][NextListing]_vars

(* ------------------ FabricService.getFolderOrCreate --------------------- *)
\* the longest folder path requested
MaxPathLen == 3

FolderNames == {"A", "B", "C"}

\* folderPath.split('/'): the names of a path
FolderPaths == UNION {[1 .. n -> FolderNames] : n \in 1 .. MaxPathLen}

\* the two calls made one after the other
FolderCalls == {"first", "second"}

\* no folder: the parentFolderId of a root folder, the id of a folder not found
NoFolder == 0

\* the folder with the id
folderOfId(folders, id) == CHOOSE f \in folders : f.id = id

\* f lies below the folder with id root
RECURSIVE isUnder(_, _, _)
isUnder(folders, f, root) ==
  IF f.parent = NoFolder THEN FALSE
  ELSE IF f.parent = root THEN TRUE
  ELSE isUnder(folders, folderOfId(folders, f.parent), root)

\* the platform's answer to listFolders: without recursion the folders at
\* the root of the workspace, with recursion those below rootFolderId
listFolders(folders, recursive, rootFolderId) ==
  IF recursive THEN {f \in folders : isUnder(folders, f, rootFolderId)}
  ELSE {f \in folders : f.parent = NoFolder}

\* rootFolders.find((f) => f.displayName === rootFolderName ...)?.id
findRootFolder(rootFolders, rootFolderName) ==
  IF \E f \in rootFolders : f.name = rootFolderName
  THEN (CHOOSE f \in rootFolders : f.name = rootFolderName).id
  ELSE NoFolder

\* allFolders.find((f) => f.displayName === subFolderName &&
\*   f.parentFolderId === parentFolderId)?.id
findSubFolder(allFolders, subFolderName, parentFolderId) ==
  IF \E f \in allFolders : f.name = subFolderName /\ f.parent = parentFolderId
  THEN (CHOOSE f \in allFolders :
          f.name = subFolderName /\ f.parent = parentFolderId).id
  ELSE NoFolder

\* faulty variant of walkSubFolders: parentFolderId is not moved to the
\* sub-folder that was found
RECURSIVE walkSubFoldersKeepsParent(_, _, _, _)
walkSubFoldersKeepsParent(allFolders, subFolders, parentFolderId, resultingFolder) ==
  IF subFolders = <<>>
  THEN [parentFolderId |-> parentFolderId, resultingFolder |-> resultingFolder,
        createFolders |-> <<>>]
  ELSE LET subFolder == findSubFolder(allFolders, Head(subFolders), parentFolderId) IN
       IF subFolder = NoFolder
       THEN [parentFolderId |-> parentFolderId, resultingFolder |-> resultingFolder,
             createFolders |-> subFolders]
       ELSE walkSubFoldersKeepsParent(allFolders, Tail(subFolders), parentFolderId,
                                      subFolder)

\* getFolderOrCreate, first loop: follow the sub-folders that exist; the
\* names from the first one that is not found on are to be created
RECURSIVE walkSubFolders(_, _, _, _)
walkSubFolders(allFolders, subFolders, parentFolderId, resultingFolder) ==
  IF subFolders = <<>>
  THEN [parentFolderId |-> parentFolderId, resultingFolder |-> resultingFolder,
        createFolders |-> <<>>]
  ELSE LET subFolder == findSubFolder(allFolders, Head(subFolders), parentFolderId) IN
       IF subFolder = NoFolder
       THEN [parentFolderId |-> parentFolderId, resultingFolder |-> resultingFolder,
             createFolders |-> subFolders]
       ELSE walkSubFolders(allFolders, Tail(subFolders), subFolder, subFolder)

\* the folder the platform creates for a createFolder request
createdFolder(folders, displayName, parentFolderId) ==
  [id |-> Cardinality(folders) + 1, name |-> displayName, parent |-> parentFolderId]

InitFabric ==
  /\ InitWorkflow
  /\ http = HttpIdle
  /\ UnitsIdle("fab")
  /\ fab = [phase |-> "ready", call |-> "none", path |-> <<>>, folders |-> {},
            before |-> {}, parentFolderId |-> NoFolder,
            resultingFolder |-> NoFolder, createFolders |-> <<>>,
            created |-> <<>>, earlier |-> <<>>]

\* getFolderOrCreate(workspaceId, folderPath) is called: the first call
\* with any path, the second one when the first has returned or thrown
GetFolderOrCreateCalled ==
  /\ \/ fab.phase = "ready"
     \/ fab.phase \in {"returned", "raised"} /\ fab.call = "first"
  /\ \E path \in FolderPaths :
       fab' = [fab EXCEPT !.phase = "listRoot",
                          !.call = IF fab.call = "none" THEN "first" ELSE "second",
                          !.path = path,
                          !.before = fab.folders,
                          !.parentFolderId = NoFolder,
                          !.resultingFolder = NoFolder,
                          !.createFolders = <<>>,
                          !.created = <<>>,
                          !.earlier = IF fab.phase # "returned" THEN <<>>
                                      ELSE <<[path |-> fab.path,
                                              folder |-> fab.resultingFolder]>>]
  /\ UNCHANGED <<workflowVars, http, tok, shared, tpl, copy, fin, rep, cap, fac, lst, race, dst, dsr, rty, dto, del, rpl, bear, gdr>>

\* rootFolders = await this.listFolders(workspaceId); the root folder is
\* looked up by name, or the listing throws
ListRootFolders ==
  /\ fab.phase = "listRoot"
  /\ \/ LET rootFolderId == findRootFolder(listFolders(fab.folders, FALSE, NoFolder),
                                            Head(fab.path))
        IN fab' = [fab EXCEPT !.phase = IF rootFolderId = NoFolder THEN "createRoot"
                                        ELSE "listAll",
                              !.parentFolderId = rootFolderId,
                              !.resultingFolder = rootFolderId]
     \/ fab' = [fab EXCEPT !.phase = "raised"]
  /\ UNCHANGED <<workflowVars, http, tok, shared, tpl, copy, fin, rep, cap, fac, lst, race, dst, dsr, rty, dto, del, rpl, bear, gdr>>

\* createFolder(workspaceId, { displayName: rootFolderName }) returns the
\* created folder, or throws
CreateRootFolder ==
  /\ fab.phase = "createRoot"
  /\ \/ LET folder == createdFolder(fab.folders, Head(fab.path), NoFolder) IN
        fab' = [fab EXCEPT !.phase = "listAll",
                           !.folders = @ \cup {folder},
                           !.created = Append(@, folder),
                           !.parentFolderId = folder.id,
                           !.resultingFolder = folder.id]
     \/ fab' = [fab EXCEPT !.phase = "raised"]
  /\ UNCHANGED <<workflowVars, http, tok, shared, tpl, copy, fin, rep, cap, fac, lst, race, dst, dsr, rty, dto, del, rpl, bear, gdr>>

\* allFolders = await this.listFolders(workspaceId, { recursive: true,
\* rootFolderId }) and the loop over subFolders; with nothing to create the
\* call returns resultingFolder
ListAllFolders ==
  /\ fab.phase = "listAll"
  /\ \/ LET walk == walkSubFolders(listFolders(fab.folders, TRUE, fab.parentFolderId),
                                   Tail(fab.path), fab.parentFolderId,
                                   fab.resultingFolder)
        IN fab' = [fab EXCEPT !.phase = IF walk.createFolders = <<>> THEN "returned"
                                        ELSE "createSub",
                              !.parentFolderId = walk.parentFolderId,
                              !.resultingFolder = walk.resultingFolder,
                              !.createFolders = walk.createFolders]
     \/ fab' = [fab EXCEPT !.phase = "raised"]
  /\ UNCHANGED <<workflowVars, http, tok, shared, tpl, copy, fin, rep, cap, fac, lst, race, dst, dsr, rty, dto, del, rpl, bear, gdr>>

\* for (const folderName of createFolders) createFolder(workspaceId,
\* { displayName: folderName, parentFolderId }); after the last one the
\* call returns resultingFolder
CreateSubFolder ==
  /\ fab.phase = "createSub"
  /\ \/ LET folder == createdFolder(fab.folders, Head(fab.createFolders),
                                    fab.parentFolderId)
        IN fab' = [fab EXCEPT !.phase = IF Tail(fab.createFolders) = <<>>
                                        THEN "returned" ELSE "createSub",
                              !.folders = @ \cup {folder},
                              !.created = Append(@, folder),
                              !.createFolders = Tail(@),
                              !.parentFolderId = folder.id,
                              !.resultingFolder = folder.id]
     \/ fab' = [fab EXCEPT !.phase = "raised"]
  /\ UNCHANGED <<workflowVars, http, tok, shared, tpl, copy, fin, rep, cap, fac, lst, race, dst, dsr, rty, dto, del, rpl, bear, gdr>>

NextFabric ==
  \/ GetFolderOrCreateCalled
  \/ ListRootFolders
  \/ CreateRootFolder
  \/ ListAllFolders
  \/ CreateSubFolder

SpecFabric == InitFabric /\ [][NextFabric]_vars

(* --------- two concurrent facade calls over one token provider ---------- *)
\* the two facade calls that run concurrently on one PowerBiService
RaceCalls == {"a", "b"}

\* powerBiRestConfig.authorizationToken: the call whose exchange minted it
\* ("none" for the value the race starts with) and what isValidToken says
NoToken == [minter |-> "none", state |-> "empty"]

\* faulty variant of handleTokenStores: the token read from the cache is
\* written back
handleTokenStoresRead(read, validToken) == read

\* handleToken: powerBiRestConfig.authorizationToken = validToken
handleTokenStores(read, validToken) == validToken

InitRace ==
  /\ InitWorkflow
  /\ http = HttpIdle
  /\ UnitsIdle("race")
  /\ \E state \in {"empty", "expired"} :
       race = [phase |-> "running",
               cache |-> [minter |-> "none", state |-> state],
               call |-> [c \in RaceCalls |->
                           [at |-> "start", read |-> NoToken, token |-> NoToken]],
               writes |-> <<>>,
               sent |-> {}]

\* handleToken of call c: generateValidToken(powerBiRestConfig.
\* authorizationToken) is called; a valid cached token is returned as it
\* is, otherwise getToken() is awaited
HandleTokenCalled(c) ==
  /\ race.phase = "running"
  /\ race.call[c].at = "start"
  /\ race' = [race EXCEPT
       !.call[c] = IF isValidToken(race.cache.state)
                   THEN [at |-> "obtained", read |-> race.cache, token |-> race.cache]
                   ELSE [at |-> "exchange", read |-> race.cache, token |-> NoToken]]
  /\ UNCHANGED <<workflowVars, http, tok, shared, tpl, copy, fin, rep, cap, fac, lst, fab, dst, dsr, rty, dto, del, rpl, bear, gdr>>

\* getToken() of call c settles: generateValidToken returns the new token,
\* or throws and the facade call fails
TokenExchangeSettles(c, exchangeOk) ==
  /\ race.phase = "running"
  /\ race.call[c].at = "exchange"
  /\ LET t == generateValidToken(race.call[c].read.state, exchangeOk) IN
     race' = [race EXCEPT
       !.call[c].at = IF t.ok THEN "obtained" ELSE "raised",
       !.call[c].token = IF t.ok THEN [minter |-> c, state |-> t.token]
                         ELSE NoToken]
  /\ UNCHANGED <<workflowVars, http, tok, shared, tpl, copy, fin, rep, cap, fac, lst, fab, dst, dsr, rty, dto, del, rpl, bear, gdr>>

\* handleToken of call c goes on after its await: the token is stored in
\* powerBiRestConfig and its accessToken returned
HandleTokenReturns(c) ==
  /\ race.phase = "running"
  /\ race.call[c].at = "obtained"
  /\ LET stored == handleTokenStores(race.call[c].read, race.call[c].token) IN
     race' = [race EXCEPT
       !.call[c].at = "request",
       !.cache = stored,
       !.writes = Append(@, [by |-> c, token |-> stored])]
  /\ UNCHANGED <<workflowVars, http, tok, shared, tpl, copy, fin, rep, cap, fac, lst, fab, dst, dsr, rty, dto, del, rpl, bear, gdr>>

\* the facade call c sends its request with the returned token as bearer
RaceRequestSent(c) ==
  /\ race.phase = "running"
  /\ race.call[c].at = "request"
  /\ race' = [race EXCEPT
       !.call[c].at = "sent",
       !.sent = @ \cup {[call |-> c, bearer |-> race.call[c].token]}]
  /\ UNCHANGED <<workflowVars, http, tok, shared, tpl, copy, fin, rep, cap, fac, lst, fab, dst, dsr, rty, dto, del, rpl, bear, gdr>>

\* the request of call c is answered and the facade call returns or throws
RaceRequestSettles(c, ok) ==
  /\ race.phase = "running"
  /\ race.call[c].at = "sent"
  /\ race' = [race EXCEPT !.call[c].at = IF ok THEN "returned" ELSE "failed"]
  /\ UNCHANGED <<workflowVars, http, tok, shared, tpl, copy, fin, rep, cap, fac, lst, fab, dst, dsr, rty, dto, del, rpl, bear, gdr>>

NextRace ==
  \/ \E c \in RaceCalls : HandleTokenCalled(c)
  \/ \E c \in RaceCalls, exchangeOk \in BOOLEAN : TokenExchangeSettles(c, exchangeOk)
  \/ \E c \in RaceCalls : HandleTokenReturns(c)
  \/ \E c \in RaceCalls : RaceRequestSent(c)
  \/ \E c \in RaceCalls, ok \in BOOLEAN : RaceRequestSettles(c, ok)

SpecRace == InitRace /\ [][NextRace]_vars

(* ------------------ the dataset located after an import ----------------- *)
\* the number of datasets in the workspace before the import
MaxPriorDatasets == 2

DatasetNames == {"Sales", "Other"}

\* the datasets of a workspace before the import, in listing order: ids
\* 1 .. n, any names
PriorDatasets ==
  UNION {{[i \in 1 .. n |-> [id |-> i, name |-> names[i]]] :
            names \in [1 .. n -> DatasetNames]} : n \in 0 .. MaxPriorDatasets}

\* no dataset: find returned undefined
NoDataset == 0

\* the listing with dataset d put at position pos
insertAt(listing, pos, d) ==
  [i \in 1 .. Len(listing) + 1 |->
     IF i < pos THEN listing[i] ELSE IF i = pos THEN d ELSE listing[i - 1]]

\* datasets.find((dataset) => dataset.name === datasetName): the id of the
\* first dataset of the listing with the name
findDatasetByName(datasets, datasetName) ==
  IF \E i \in DOMAIN datasets : datasets[i].name = datasetName
  THEN datasets[CHOOSE i \in DOMAIN datasets :
                  /\ datasets[i].name = datasetName
                  /\ \A j \in DOMAIN datasets :
                       datasets[j].name = datasetName => i <= j].id
  ELSE NoDataset

\* importPbixToWorkspace(groupId, config) on a workspace that holds prior
\* datasets; datasetName = config.name
InitDataset ==
  /\ InitWorkflow
  /\ http = HttpIdle
  /\ UnitsIdle("dst")
  /\ \E prior \in PriorDatasets :
       dst = [phase |-> "import", datasetName |-> "Sales", datasets |-> prior,
              created |-> NoDataset, datasetId |-> NoDataset,
              takeOver |-> <<>>, err |-> NoError]

\* importInGroup with datasetDisplayName = datasetName and the import poll
\* have ended: the platform has created a dataset, under the submitted
\* name or under another one, and lists it at a position of its choice
ImportPublished ==
  /\ dst.phase = "import"
  /\ \E name \in DatasetNames, pos \in 1 .. Len(dst.datasets) + 1 :
       LET d == [id |-> Len(dst.datasets) + 1, name |-> name] IN
       dst' = [dst EXCEPT !.phase = "getGroupDatasets",
                          !.created = d.id,
                          !.datasets = insertAt(dst.datasets, pos, d)]
  /\ UNCHANGED <<workflowVars, http, tok, shared, tpl, copy, fin, rep, cap, fac, lst, fab, race, dsr, rty, dto, del, rpl, bear, gdr>>

\* datasets = await this.getGroupDatasets(pbiGroup.id); datasetId =
\* datasets.find(...).id throws a TypeError when nothing is found, which
\* the catch block replaces; otherwise the take-over request is sent
GetGroupDatasetsReturns ==
  /\ dst.phase = "getGroupDatasets"
  /\ LET id == findDatasetByName(dst.datasets, dst.datasetName) IN
     IF id = NoDataset
     THEN dst' = [dst EXCEPT !.phase = "raised", !.err = importCatch(TypeError)]
     ELSE dst' = [dst EXCEPT !.phase = "datasetTakeOver",
                             !.datasetId = id,
                             !.takeOver = Append(@, id)]
  /\ UNCHANGED <<workflowVars, http, tok, shared, tpl, copy, fin, rep, cap, fac, lst, fab, race, dsr, rty, dto, del, rpl, bear, gdr>>

\* datasetTakeOver returns and the run goes on to return datasetId in its
\* result, or throws
DatasetTakeOverReturns ==
  /\ dst.phase = "datasetTakeOver"
  /\ \/ dst' = [dst EXCEPT !.phase = "returned"]
     \/ \E s \in FailedStatuses :
          dst' = [dst EXCEPT !.phase = "raised", !.err = importCatch(HttpError(s))]
  /\ UNCHANGED <<workflowVars, http, tok, shared, tpl, copy, fin, rep, cap, fac, lst, fab, race, dsr, rty, dto, del, rpl, bear, gdr>>

NextDataset ==
  \/ ImportPublished
  \/ GetGroupDatasetsReturns
  \/ DatasetTakeOverReturns

SpecDataset == InitDataset /\ [][NextDataset]_vars

(* ---------------- the datasource whose credentials are set -------------- *)
\* the PBIDatasource listings of a dataset: gatewayId and datasourceId of
\* each datasource, in listing order
DatasourceListings ==
  UNION {[1 .. n -> [gatewayId : {"gw1", "gw2"}, datasourceId : {"d1", "d2"}]] :
           n \in 0 .. MaxDatasources}

\* faulty variant of firstDatasource: the last datasource of the listing
lastDatasource(listing) == listing[Len(listing)]

\* (await this.listDatasourcesInGroup(pbiGroup.id, datasetId))[0]
firstDatasource(listing) == listing[1]

InitDatasource ==
  /\ InitWorkflow
  /\ http = HttpIdle
  /\ UnitsIdle("dsr")
  /\ \E listing \in DatasourceListings :
       dsr = [phase |-> "listDatasourcesInGroup", listing |-> listing,
              updates |-> <<>>, refreshes |-> 0, out |-> "", err |-> NoError]

\* datasource = (await listDatasourcesInGroup(...))[0]; with an empty
\* listing datasource is undefined and datasource.gatewayId throws;
\* otherwise gatewayDatasourceUpdate sends its PATCH request
ListDatasourcesReturns ==
  /\ dsr.phase = "listDatasourcesInGroup"
  /\ IF dsr.listing = <<>>
     THEN dsr' = [dsr EXCEPT !.phase = "raised", !.err = importCatch(TypeError)]
     ELSE LET first == firstDatasource(dsr.listing) IN
          dsr' = [dsr EXCEPT !.phase = "gatewayDatasourceUpdate",
                             !.updates = Append(@, [gatewayId |-> first.gatewayId,
                                                    datasourceId |-> first.datasourceId])]
  /\ UNCHANGED <<workflowVars, http, tok, shared, tpl, copy, fin, rep, cap, fac, lst, fab, race, dst, rty, dto, del, rpl, bear, gdr>>

\* gatewayDatasourceUpdate returns and datasetRefresh sends its request, or
\* the update throws
GatewayDatasourceUpdateReturns ==
  /\ dsr.phase = "gatewayDatasourceUpdate"
  /\ \/ dsr' = [dsr EXCEPT !.phase = "datasetRefresh", !.refreshes = @ + 1]
     \/ \E s \in FailedStatuses :
          dsr' = [dsr EXCEPT !.phase = "raised", !.err = importCatch(HttpError(s))]
  /\ UNCHANGED <<workflowVars, http, tok, shared, tpl, copy, fin, rep, cap, fac, lst, fab, race, dst, rty, dto, del, rpl, bear, gdr>>

\* the rest of the run: it returns datasourceId: datasource.datasourceId in
\* its result, or a later step throws
DatasourceRunEnds ==
  /\ dsr.phase = "datasetRefresh"
  /\ \/ dsr' = [dsr EXCEPT !.phase = "returned",
                           !.out = firstDatasource(dsr.listing).datasourceId]
     \/ \E s \in FailedStatuses :
          dsr' = [dsr EXCEPT !.phase = "raised", !.err = importCatch(HttpError(s))]
  /\ UNCHANGED <<workflowVars, http, tok, shared, tpl, copy, fin, rep, cap, fac, lst, fab, race, dst, rty, dto, del, rpl, bear, gdr>>

NextDatasource ==
  \/ ListDatasourcesReturns
  \/ GatewayDatasourceUpdateReturns
  \/ DatasourceRunEnds

SpecDatasource == InitDatasource /\ [][NextDatasource]_vars

(* --------------- the suspension before the 429 retry -------------------- *)
\* the largest integer a Retry-After header carries
MaxRetryAfter == 2

\* getRetryAfterSeconds: return 60 when there is no header
DEFAULT_RETRY_AFTER == 60

\* handleHttpCall: delayMs = delaySeconds * 1000
MS_PER_SECOND == 1000

\* the Retry-After header of a 429 response: absent (headers.get returns
\* null), empty, an integer of seconds, or an HTTP date (given as its
\* getTime(), a whole second)
RetryAfterHeaders ==
  {[kind |-> "absent", n |-> 0], [kind |-> "empty", n |-> 0]}
  \cup {[kind |-> "integer", n |-> n] : n \in 0 .. MaxRetryAfter}
  \cup {[kind |-> "date", n |-> n * MS_PER_SECOND] : n \in 0 .. MaxRetryAfter + 1}

\* Date.now() when the 429 response arrives, in ms
ResponseTimes == {0, 1, 999, 1000, 1500}

\* Math.ceil(ms / 1000)
ceilSeconds(ms) == -((-ms) \div MS_PER_SECOND)

\* faulty variant of getRetryAfterSeconds: the seconds to an HTTP date are
\* rounded down
getRetryAfterSecondsFloor(retryAfterHeader, now) ==
  CASE retryAfterHeader.kind \in {"absent", "empty"} -> DEFAULT_RETRY_AFTER
    [] retryAfterHeader.kind = "integer" -> retryAfterHeader.n
    [] retryAfterHeader.kind = "date" ->
         LET delayMs == retryAfterHeader.n - now
             whole == delayMs \div MS_PER_SECOND
         IN IF whole > 1 THEN whole ELSE 1

\* getRetryAfterSeconds(retryAfterHeader) with new Date() = now:
\* 60 without a header, parseInt(header, 10) when that is a number,
\* otherwise Math.max(1, Math.ceil((retryDate - now) / 1000))
getRetryAfterSeconds(retryAfterHeader, now) ==
  CASE retryAfterHeader.kind \in {"absent", "empty"} -> DEFAULT_RETRY_AFTER
    [] retryAfterHeader.kind = "integer" -> retryAfterHeader.n
    [] retryAfterHeader.kind = "date" ->
         LET delayMs == retryAfterHeader.n - now IN
         IF ceilSeconds(delayMs) > 1 THEN ceilSeconds(delayMs) ELSE 1

\* handleHttpCall is called; the first fetch is under way
InitRetry ==
  /\ InitWorkflow
  /\ http = HttpIdle
  /\ UnitsIdle("rty")
  /\ rty = [phase |-> "fetch", now |-> 0,
            header |-> [kind |-> "absent", n |-> 0],
            answeredAt |-> 0, delayMs |-> 0, retriedAt |-> 0, attempts |-> 1,
            ok |-> FALSE]

\* the first fetch is answered at some time: a 429 with its Retry-After
\* header starts the sleep of delaySeconds * 1000 ms, any other response
\* goes to handleHttpResponse
FirstFetchAnswered ==
  /\ rty.phase = "fetch"
  /\ \E s \in HttpStatuses \ {NETWORK_FAILURE}, t \in ResponseTimes,
        header \in RetryAfterHeaders :
       IF s = ERROR_TOO_MANY_REQUESTS
       THEN rty' = [rty EXCEPT
                      !.phase = "sleep",
                      !.now = t,
                      !.answeredAt = t,
                      !.header = header,
                      !.delayMs = getRetryAfterSeconds(header, t) * MS_PER_SECOND]
       ELSE rty' = [rty EXCEPT !.phase = "settled", !.now = t, !.answeredAt = t,
                               !.ok = handleHttpResponse(s).ok]
  /\ UNCHANGED <<workflowVars, http, tok, shared, tpl, copy, fin, rep, cap, fac, lst, fab, race, dst, dsr, dto, del, rpl, bear, gdr>>

\* time passes while handleHttpCall sleeps: to the middle of the sleep, to
\* its end, or beyond it
RetryClockAdvances ==
  /\ rty.phase = "sleep"
  /\ rty.now < rty.answeredAt + rty.delayMs
  /\ \E t \in {rty.answeredAt + (rty.delayMs \div 2),
               rty.answeredAt + rty.delayMs - 1,
               rty.answeredAt + rty.delayMs,
               rty.answeredAt + rty.delayMs + 1} :
       /\ t > rty.now
       /\ rty' = [rty EXCEPT !.now = t]
  /\ UNCHANGED <<workflowVars, http, tok, shared, tpl, copy, fin, rep, cap, fac, lst, fab, race, dst, dsr, dto, del, rpl, bear, gdr>>

\* the timer of sleep(delayMs) has fired: the second fetch is sent
RetrySent ==
  /\ rty.phase = "sleep"
  /\ rty.now >= rty.answeredAt + rty.delayMs
  /\ rty' = [rty EXCEPT !.phase = "retry", !.retriedAt = rty.now, !.attempts = 2]
  /\ UNCHANGED <<workflowVars, http, tok, shared, tpl, copy, fin, rep, cap, fac, lst, fab, race, dst, dsr, dto, del, rpl, bear, gdr>>

\* the second fetch is answered: its response goes to handleHttpResponse
RetryAnswered ==
  /\ rty.phase = "retry"
  /\ \E s \in HttpStatuses \ {NETWORK_FAILURE} :
       rty' = [rty EXCEPT !.phase = "settled", !.ok = handleHttpResponse(s).ok]
  /\ UNCHANGED <<workflowVars, http, tok, shared, tpl, copy, fin, rep, cap, fac, lst, fab, race, dst, dsr, dto, del, rpl, bear, gdr>>

NextRetry ==
  \/ FirstFetchAnswered
  \/ RetryClockAdvances
  \/ RetrySent
  \/ RetryAnswered

SpecRetry == InitRetry /\ [][NextRetry]_vars

(* --------------- the construction of PowerBiConfigDto ------------------- *)
\* the longest credential template and parameter template
MaxTemplateItems == 2

\* CredentialTemplateItemEnum
CredentialTemplateItemEnum == {"USERNAME", "PASSWORD", "SA_JSON"}

\* DatasourceParamTemplateItemEnum, and a tag read from a configuration
\* file that is none of its members
DatasourceParamTypes == {"DATABASE_NAME", "HOSTNAME", "WAREHOUSE", "SCHEMA", "PORT"}

\* overrideValue?: string of a credential template item: left out, the
\* empty string, or a literal
NoOverride == "<undefined>"
OverrideValues == {NoOverride, "", "literal"}

\* the tenant's ISnowflakeCredentials
SnowflakeCredentials ==
  [host |-> "host-1", user |-> "user-1", password |-> "password-1",
   warehouse |-> "warehouse-1", schema |-> "schema-1", database |-> "database-1"]

\* what a function returns that ends without a return statement
UndefinedItem == [undefined |-> TRUE, name |-> "", value |-> ""]
PBIItem(name, value) == [undefined |-> FALSE, name |-> name, value |-> value]

\* the templates of ISourceSystemPBIConfig: left out, or a list of items
SeqsUpTo(S, n) == UNION {[1 .. k -> S] : k \in 0 .. n}
CredentialTemplateItems ==
  [type : CredentialTemplateItemEnum, name : {"credential"}, overrideValue : OverrideValues]
DatasourceParamTemplateItems ==
  [type : DatasourceParamTypes, name : {"parameter"}]
NoTemplate == [present |-> FALSE, items |-> <<>>]
Template(items) == [present |-> TRUE, items |-> items]
CredentialTemplates ==
  {NoTemplate} \cup {Template(t) : t \in SeqsUpTo(CredentialTemplateItems, MaxTemplateItems)}
DatasourceParamTemplates ==
  {NoTemplate} \cup {Template(t) : t \in SeqsUpTo(DatasourceParamTemplateItems, MaxTemplateItems)}

\* if (templateItem.overrideValue): a string that is there and not empty
truthy(overrideValue) == overrideValue # NoOverride /\ overrideValue # ""

\* mapCredentials(templateItem, snowflakeCredentialDetails)
mapCredentials(templateItem, snowflakeCredentialDetails) ==
  IF truthy(templateItem.overrideValue)
  THEN PBIItem(templateItem.name, templateItem.overrideValue)
  ELSE CASE templateItem.type = "PASSWORD" ->
              PBIItem(templateItem.name, snowflakeCredentialDetails.password)
         [] templateItem.type = "USERNAME" ->
              PBIItem(templateItem.name, snowflakeCredentialDetails.user)
         [] OTHER -> UndefinedItem

\* mapDatasourceParam(templateItem, snowflakeCredentialDetails)
mapDatasourceParam(templateItem, snowflakeCredentialDetails) ==
  CASE templateItem.type = "DATABASE_NAME" ->
         PBIItem(templateItem.name, snowflakeCredentialDetails.database)
    [] templateItem.type = "HOSTNAME" ->
         PBIItem(templateItem.name, snowflakeCredentialDetails.host)
    [] templateItem.type = "SCHEMA" ->
         PBIItem(templateItem.name, snowflakeCredentialDetails.schema)
    [] templateItem.type = "WAREHOUSE" ->
         PBIItem(templateItem.name, snowflakeCredentialDetails.warehouse)
    [] OTHER -> UndefinedItem

\* new PowerBiConfigDto(...) is about to run with some templates
InitConfig ==
  /\ InitWorkflow
  /\ http = HttpIdle
  /\ UnitsIdle("dto")
  /\ \E c \in CredentialTemplates, p \in DatasourceParamTemplates :
       dto = [phase |-> "new", credentialsTemplate |-> c,
              datasourceParamsTemplate |-> p, raised |-> FALSE,
              hasCredentials |-> FALSE, credentialData |-> <<>>,
              datasourceParams |-> <<>>]

\* the constructor: both templates are mapped item by item; nothing in it
\* throws
ConfigConstructed ==
  /\ dto.phase = "new"
  /\ dto' = [dto EXCEPT
       !.phase = "constructed",
       !.hasCredentials = dto.credentialsTemplate.present,
       !.credentialData =
          [i \in DOMAIN dto.credentialsTemplate.items |->
             mapCredentials(dto.credentialsTemplate.items[i], SnowflakeCredentials)],
       !.datasourceParams =
          [i \in DOMAIN dto.datasourceParamsTemplate.items |->
             mapDatasourceParam(dto.datasourceParamsTemplate.items[i], SnowflakeCredentials)]]
  /\ UNCHANGED <<workflowVars, http, tok, shared, tpl, copy, fin, rep, cap, fac, lst, fab, race, dst, dsr, rty, del, rpl, bear, gdr>>

\* the constructed config is handed to initializeFromTemplate
ConfigPassedToProvisioning ==
  /\ dto.phase = "constructed"
  /\ ~dto.raised
  /\ dto' = [dto EXCEPT !.phase = "provisioning"]
  /\ UNCHANGED <<workflowVars, http, tok, shared, tpl, copy, fin, rep, cap, fac, lst, fab, race, dst, dsr, rty, del, rpl, bear, gdr>>

NextConfig ==
  \/ ConfigConstructed
  \/ ConfigPassedToProvisioning

SpecConfig == InitConfig /\ [][NextConfig]_vars

(* ------------------ FabricService.deleteRecursive ----------------------- *)
\* the most folders in the workspace when deleteRecursive is called
MaxFolders == 4

\* the folders of a workspace: ids 1 .. n, each folder at the root or below
\* an older folder, no two folders of one parent with the same name
FolderTrees ==
  UNION {{{[id |-> i, name |-> names[i], parent |-> parents[i]] : i \in 1 .. n} :
            names \in [1 .. n -> {"A", "B"}],
            parents \in {p \in [1 .. n -> 0 .. n] : \A i \in 1 .. n : p[i] < i}} :
         n \in 0 .. MaxFolders}
WorkspaceFolders ==
  {t \in FolderTrees :
     \A f, g \in t : f.parent = g.parent /\ f.name = g.name => f.id = g.id}

\* the folderPath arguments
DeletePaths == {<<"A">>, <<"B">>, <<"A", "B">>, <<"A", "A">>}

\* getDepth(folder): the number of steps up to a folder whose parent is not
\* among allNodes
RECURSIVE getDepth(_, _)
getDepth(allNodes, folder) ==
  IF folder.parent = NoFolder THEN 0
  ELSE IF \E p \in allNodes : p.id = folder.parent
       THEN 1 + getDepth(allNodes, CHOOSE p \in allNodes : p.id = folder.parent)
       ELSE 0

\* faulty variant of foldersToEmpty: the descendants sorted shallowest first
RECURSIVE foldersShallowestFirst(_, _)
foldersShallowestFirst(allNodes, descendants) ==
  IF descendants = {} THEN <<>>
  ELSE LET f == CHOOSE f \in descendants : \A g \in descendants :
                  \/ getDepth(allNodes, f) < getDepth(allNodes, g)
                  \/ getDepth(allNodes, f) = getDepth(allNodes, g) /\ f.id <= g.id
       IN <<f.id>> \o foldersShallowestFirst(allNodes, descendants \ {f})

\* [...descendants].sort((a, b) => getDepth(b) - getDepth(a)): the ids of
\* the descendants, deepest first, those of one depth in the order listed
\* (by id)
RECURSIVE foldersDeepestFirst(_, _)
foldersDeepestFirst(allNodes, descendants) ==
  IF descendants = {} THEN <<>>
  ELSE LET f == CHOOSE f \in descendants : \A g \in descendants :
                  \/ getDepth(allNodes, f) > getDepth(allNodes, g)
                  \/ getDepth(allNodes, f) = getDepth(allNodes, g) /\ f.id <= g.id
       IN <<f.id>> \o foldersDeepestFirst(allNodes, descendants \ {f})

\* deleteRecursive(workspaceId, folderPath, { deleteSelf }) is called on
\* some workspace
InitDelete ==
  /\ InitWorkflow
  /\ http = HttpIdle
  /\ UnitsIdle("del")
  /\ \E folders \in WorkspaceFolders, path \in DeletePaths, deleteSelf \in BOOLEAN :
       del = [phase |-> "listRoot", folders |-> folders, before |-> folders,
              path |-> path, deleteSelf |-> deleteSelf,
              targetFolder |-> NoFolder, foldersToEmpty |-> <<>>,
              returned |-> {}, requests |-> <<>>]

\* rootFolders = await this.listFolders(workspaceId); without the root
\* folder the call returns; with a one-name path the root is the target
DeleteListsRootFolders ==
  /\ del.phase = "listRoot"
  /\ \/ LET rootFolder == findRootFolder(listFolders(del.folders, FALSE, NoFolder),
                                          Head(del.path))
        IN del' = [del EXCEPT
                     !.phase = IF rootFolder = NoFolder THEN "returned"
                               ELSE IF Tail(del.path) = <<>> THEN "listDescendants"
                               ELSE "listAll",
                     !.targetFolder = rootFolder]
     \/ del' = [del EXCEPT !.phase = "raised"]
  /\ UNCHANGED <<workflowVars, http, tok, shared, tpl, copy, fin, rep, cap, fac, lst, fab, race, dst, dsr, rty, dto, rpl, bear, gdr>>

\* allFolders = await this.listFolders(..., { recursive: true, rootFolderId })
\* and the loop down the path; a name that is not found ends the call
DeleteListsAllFolders ==
  /\ del.phase = "listAll"
  /\ \/ LET walk == walkSubFolders(listFolders(del.folders, TRUE, del.targetFolder),
                                   Tail(del.path), del.targetFolder, del.targetFolder)
        IN del' = [del EXCEPT
                     !.phase = IF walk.createFolders # <<>> THEN "returned"
                               ELSE "listDescendants",
                     !.targetFolder = walk.resultingFolder]
     \/ del' = [del EXCEPT !.phase = "raised"]
  /\ UNCHANGED <<workflowVars, http, tok, shared, tpl, copy, fin, rep, cap, fac, lst, fab, race, dst, dsr, rty, dto, rpl, bear, gdr>>

\* descendants = await this.listFolders(..., { recursive: true,
\* rootFolderId: targetFolder.id }); foldersToEmpty is the sorted
\* descendants followed by the target
DeleteListsDescendants ==
  /\ del.phase = "listDescendants"
  /\ \/ LET descendants == listFolders(del.folders, TRUE, del.targetFolder)
            allNodes == {folderOfId(del.folders, del.targetFolder)} \cup descendants
        IN del' = [del EXCEPT
                     !.phase = "items",
                     !.foldersToEmpty =
                        Append(foldersDeepestFirst(allNodes, descendants),
                               del.targetFolder)]
     \/ del' = [del EXCEPT !.phase = "raised"]
  /\ UNCHANGED <<workflowVars, http, tok, shared, tpl, copy, fin, rep, cap, fac, lst, fab, race, dst, dsr, rty, dto, rpl, bear, gdr>>

\* for the next folder of foldersToEmpty: listFolderItems and deleteItem for
\* each item; any of these requests may throw
FolderItemsDeleted ==
  /\ del.phase = "items"
  /\ \/ del' = [del EXCEPT
                  !.phase = IF Head(del.foldersToEmpty) # del.targetFolder
                            THEN "deleteFolder"
                            ELSE IF del.deleteSelf THEN "deleteSelf" ELSE "returned"]
     \/ del' = [del EXCEPT !.phase = "raised"]
  /\ UNCHANGED <<workflowVars, http, tok, shared, tpl, copy, fin, rep, cap, fac, lst, fab, race, dst, dsr, rty, dto, rpl, bear, gdr>>

\* the delete request for folder id goes out; it records which delete
\* requests have returned by then
deleteFolderSent(id) ==
  [del EXCEPT !.requests = Append(@, [id |-> id, returned |-> del.returned])]

\* await this.deleteFolder(workspaceId, folder.id) for a folder that is
\* not the target: the request is sent
DeleteFolderSent ==
  /\ del.phase = "deleteFolder"
  /\ del' = [deleteFolderSent(Head(del.foldersToEmpty)) EXCEPT !.phase = "deleteFolderWait"]
  /\ UNCHANGED <<workflowVars, http, tok, shared, tpl, copy, fin, rep, cap, fac, lst, fab, race, dst, dsr, rty, dto, rpl, bear, gdr>>

\* the delete request returns and the loop goes on, or it throws
DeleteFolderReturns ==
  /\ del.phase = "deleteFolderWait"
  /\ \/ LET id == Head(del.foldersToEmpty) IN
        del' = [del EXCEPT
                  !.phase = "items",
                  !.folders = {f \in @ : f.id # id},
                  !.returned = @ \cup {id},
                  !.foldersToEmpty = Tail(@)]
     \/ del' = [del EXCEPT !.phase = "raised"]
  /\ UNCHANGED <<workflowVars, http, tok, shared, tpl, copy, fin, rep, cap, fac, lst, fab, race, dst, dsr, rty, dto, rpl, bear, gdr>>

\* if (deleteSelf) await this.deleteFolder(workspaceId, targetFolder.id):
\* the request is sent
DeleteSelfSent ==
  /\ del.phase = "deleteSelf"
  /\ del' = [deleteFolderSent(del.targetFolder) EXCEPT !.phase = "deleteSelfWait"]
  /\ UNCHANGED <<workflowVars, http, tok, shared, tpl, copy, fin, rep, cap, fac, lst, fab, race, dst, dsr, rty, dto, rpl, bear, gdr>>

\* the delete request for the target returns and the call returns, or it
\* throws
DeleteSelfReturns ==
  /\ del.phase = "deleteSelfWait"
  /\ \/ del' = [del EXCEPT
                  !.phase = "returned",
                  !.folders = {f \in @ : f.id # del.targetFolder},
                  !.returned = @ \cup {del.targetFolder},
                  !.foldersToEmpty = Tail(@)]
     \/ del' = [del EXCEPT !.phase = "raised"]
  /\ UNCHANGED <<workflowVars, http, tok, shared, tpl, copy, fin, rep, cap, fac, lst, fab, race, dst, dsr, rty, dto, rpl, bear, gdr>>

NextDelete ==
  \/ DeleteListsRootFolders
  \/ DeleteListsAllFolders
  \/ DeleteListsDescendants
  \/ FolderItemsDeleted
  \/ DeleteFolderSent
  \/ DeleteFolderReturns
  \/ DeleteSelfSent
  \/ DeleteSelfReturns

SpecDelete == InitDelete /\ [][NextDelete]_vars

(* ------------- the refresh poll of importPbixToWorkspace ---------------- *)
\* datasetRefresh has returned: let counter = 0; let refreshed
InitRefreshPoll ==
  /\ InitWorkflow
  /\ http = HttpIdle
  /\ UnitsIdle("rpl")
  /\ rpl = [phase |-> "polling", counter |-> 0, refreshed |-> FALSE,
            refreshes |-> <<>>, observed |-> FALSE, dataRefreshed |-> FALSE]

\* one iteration of the do-while: counter++, getDatasetRefreshes returns
\* the records of the dataset (none when the response has no value) and
\* refreshed = allRefreshesInFinalState(refreshes)
RefreshPollReturns ==
  /\ rpl.phase = "polling"
  /\ \E refreshes \in RefreshListings :
       LET final == allRefreshesInFinalState(refreshes) IN
       rpl' = [rpl EXCEPT
                 !.counter = @ + 1,
                 !.refreshes = refreshes,
                 !.observed = @ \/ refreshes # <<>>,
                 !.refreshed = final,
                 !.phase = IF continueRefreshPoll(rpl.counter + 1, final)
                           THEN "polling" ELSE "polled"]
  /\ UNCHANGED <<workflowVars, http, tok, shared, tpl, copy, fin, rep, cap, fac, lst, fab, race, dst, dsr, rty, dto, del, bear, gdr>>

\* getDatasetRefreshes throws: importPbixToWorkspace raises
RefreshPollThrows ==
  /\ rpl.phase = "polling"
  /\ rpl' = [rpl EXCEPT !.counter = @ + 1, !.phase = "raised"]
  /\ UNCHANGED <<workflowVars, http, tok, shared, tpl, copy, fin, rep, cap, fac, lst, fab, race, dst, dsr, rty, dto, del, bear, gdr>>

\* the steps after the poll return and the result is built with
\* dataRefreshed: refreshed, or one of them throws
ImportResultReturned ==
  /\ rpl.phase = "polled"
  /\ \/ rpl' = [rpl EXCEPT !.phase = "returned", !.dataRefreshed = rpl.refreshed]
     \/ rpl' = [rpl EXCEPT !.phase = "raised"]
  /\ UNCHANGED <<workflowVars, http, tok, shared, tpl, copy, fin, rep, cap, fac, lst, fab, race, dst, dsr, rty, dto, del, bear, gdr>>

NextRefreshPoll ==
  \/ RefreshPollReturns
  \/ RefreshPollThrows
  \/ ImportResultReturned

SpecRefreshPoll == InitRefreshPoll /\ [][NextRefreshPoll]_vars

(* ------------- the bearer token of the attempts of one call ------------- *)
\* the longest Retry-After a 429 response asks for, in minutes
MaxRetryMinutes == 8

\* the Retry-After headers of the 429 response: absent, or whole minutes
\* given in seconds
BearerRetryAfterHeaders ==
  {[kind |-> "absent", n |-> 0]}
  \cup {[kind |-> "integer", n |-> 60 * k] : k \in 1 .. MaxRetryMinutes}

\* a facade call starts at some time (in minutes) with some cached token;
\* the identity provider, when asked, rejects or issues a token that has
\* not expired yet
InitBearer ==
  /\ InitWorkflow
  /\ http = HttpIdle
  /\ UnitsIdle("bear")
  /\ \E t \in CurrentTokens, now \in 0 .. MaxClock, response \in TokenResponses :
       /\ response.kind = "token" => response.expiresOn > now
       /\ bear = [phase |-> "called", currentToken |-> t, now |-> now,
                  response |-> response, token |-> NullToken,
                  attempts |-> <<>>, wakeAt |-> 0]

\* requestInit = this.assembleRequest(method, await this.handleToken()):
\* the cached token is reused when it is valid, else a new one is requested;
\* the first fetch of handleHttpCall is sent with it
BearerFirstAttemptSent ==
  /\ bear.phase = "called"
  /\ LET out == generateValidTokenAt(bear.currentToken, bear.now, bear.response) IN
     IF out.ok
     THEN bear' = [bear EXCEPT
                     !.phase = "first",
                     !.token = out.token,
                     !.attempts = <<[sentAt |-> bear.now, expireAt |-> out.token.expireAt]>>]
     ELSE bear' = [bear EXCEPT !.phase = "raised"]
  /\ UNCHANGED <<workflowVars, http, tok, shared, tpl, copy, fin, rep, cap, fac, lst, fab, race, dst, dsr, rty, dto, del, rpl, gdr>>

\* the first response: a 429 starts sleep(delaySeconds * 1000), any other
\* status ends the call
BearerFirstAnswered ==
  /\ bear.phase = "first"
  /\ \E s \in HttpStatuses \ {NETWORK_FAILURE}, header \in BearerRetryAfterHeaders :
       IF s = ERROR_TOO_MANY_REQUESTS
       THEN bear' = [bear EXCEPT
                       !.phase = "sleep",
                       !.wakeAt = bear.now + (getRetryAfterSeconds(header, 0) \div 60)]
       ELSE bear' = [bear EXCEPT !.phase = "settled"]
  /\ UNCHANGED <<workflowVars, http, tok, shared, tpl, copy, fin, rep, cap, fac, lst, fab, race, dst, dsr, rty, dto, del, rpl, gdr>>

\* the sleep is over: response = await fetch(callUrl, requestInit) with the
\* requestInit of the first attempt
BearerRetrySent ==
  /\ bear.phase = "sleep"
  /\ bear' = [bear EXCEPT
                !.phase = "retry",
                !.now = bear.wakeAt,
                !.attempts = Append(@, [sentAt |-> bear.wakeAt,
                                        expireAt |-> bear.attempts[1].expireAt])]
  /\ UNCHANGED <<workflowVars, http, tok, shared, tpl, copy, fin, rep, cap, fac, lst, fab, race, dst, dsr, rty, dto, del, rpl, gdr>>

\* the second response ends the call
BearerRetryAnswered ==
  /\ bear.phase = "retry"
  /\ bear' = [bear EXCEPT !.phase = "settled"]
  /\ UNCHANGED <<workflowVars, http, tok, shared, tpl, copy, fin, rep, cap, fac, lst, fab, race, dst, dsr, rty, dto, del, rpl, gdr>>

NextBearer ==
  \/ BearerFirstAttemptSent
  \/ BearerFirstAnswered
  \/ BearerRetrySent
  \/ BearerRetryAnswered

SpecBearer == InitBearer /\ [][NextBearer]_vars

(* -------------- PowerBiClient.groupDatasetRefreshed --------------------- *)
\* the most refresh records getDatasetRefreshes returns to it
MaxInfoRecords == 2

\* the endTime values of the records, as points in time
EndTimes == {1, 2}

\* PBIRefresh records and the lists getDatasetRefreshes returns: the value
\* of the response, or a new empty array
PBIRefreshes == [status : RefreshStatuses, endTime : EndTimes]
PBIRefreshLists == UNION {[1 .. n -> PBIRefreshes] : n \in 0 .. MaxInfoRecords}

\* the statuses of a list of records
statusesOf(refreshes) == [i \in DOMAIN refreshes |-> refreshes[i].status]

\* refreshes.sort((o1, o2) => (o1.endTime < o2.endTime ? -1 : 1)): the
\* records in ascending order of endTime; records with the same endTime
\* come out in either order
sortedByEndTime(refreshes) ==
  {[i \in DOMAIN refreshes |-> refreshes[f[i]]] :
     f \in {g \in [DOMAIN refreshes -> DOMAIN refreshes] :
              /\ \A i, j \in DOMAIN refreshes : i # j => g[i] # g[j]
              /\ \A i, j \in DOMAIN refreshes :
                   i < j => refreshes[g[i]].endTime <= refreshes[g[j]].endTime}}

\* faulty variant of lastRefresh: the first record of the sorted list
firstRefresh(sorted) == sorted[1]
\* refreshes[refreshes.length - 1]
lastRefresh(sorted) == sorted[Len(sorted)]

\* groupDatasetRefreshed(groupId, datasetId) is called
InitRefreshInfo ==
  /\ InitWorkflow
  /\ http = HttpIdle
  /\ UnitsIdle("gdr")
  /\ gdr = [phase |-> "called", refreshes |-> <<>>, err |-> NoError,
            allInFinalState |-> FALSE, lastRefreshSuccessful |-> FALSE]

\* refreshes = await this._powerBiService.getDatasetRefreshes(...): a list
\* of records, or the facade call throws
InfoRefreshesListed ==
  /\ gdr.phase = "called"
  /\ \/ \E refreshes \in PBIRefreshLists :
          gdr' = [gdr EXCEPT !.phase = "listed", !.refreshes = refreshes]
     \/ \E s \in FailedStatuses :
          gdr' = [gdr EXCEPT !.phase = "raised", !.err = HttpError(s)]
  /\ UNCHANGED <<workflowVars, http, tok, shared, tpl, copy, fin, rep, cap, fac, lst, fab, race, dst, dsr, rty, dto, del, rpl, bear>>

\* the rest of groupDatasetRefreshed: allInFinalState, and when it is true
\* the sort and the status of the last record; reading .status of the last
\* record of an empty list throws a TypeError
GroupDatasetRefreshedReturns ==
  /\ gdr.phase = "listed"
  /\ LET allInFinalState == allRefreshesInFinalState(statusesOf(gdr.refreshes)) IN
     IF ~allInFinalState
     THEN gdr' = [gdr EXCEPT !.phase = "returned", !.allInFinalState = FALSE,
                             !.lastRefreshSuccessful = FALSE]
     ELSE IF gdr.refreshes = <<>>
     THEN gdr' = [gdr EXCEPT !.phase = "raised", !.err = TypeError]
     ELSE \E sorted \in sortedByEndTime(gdr.refreshes) :
            gdr' = [gdr EXCEPT
                      !.phase = "returned",
                      !.refreshes = sorted,
                      !.allInFinalState = TRUE,
                      !.lastRefreshSuccessful = lastRefresh(sorted).status = "Completed"]
  /\ UNCHANGED <<workflowVars, http, tok, shared, tpl, copy, fin, rep, cap, fac, lst, fab, race, dst, dsr, rty, dto, del, rpl, bear>>

NextRefreshInfo ==
  \/ InfoRefreshesListed
  \/ GroupDatasetRefreshedReturns

SpecRefreshInfo == InitRefreshInfo /\ [][NextRefreshInfo]_vars

(* ------- FabricService.getFolderOrCreate of fabric.service.ts ----------- *)
\* getFolderOrCreate as fabric.service.ts has it, first loop: a sub-folder
\* counts as found when any folder listed below the root has its name (the
\* first one listed, by id), and parentFolderId stays the root's id
RECURSIVE walkSubFoldersByName(_, _, _, _)
walkSubFoldersByName(allFolders, subFolders, parentFolderId, resultingFolder) ==
  IF subFolders = <<>>
  THEN [parentFolderId |-> parentFolderId, resultingFolder |-> resultingFolder,
        createFolders |-> <<>>]
  ELSE LET named == {f \in allFolders : f.name = Head(subFolders)} IN
       IF named = {}
       THEN [parentFolderId |-> parentFolderId, resultingFolder |-> resultingFolder,
             createFolders |-> subFolders]
       ELSE walkSubFoldersByName(allFolders, Tail(subFolders), parentFolderId,
              (CHOOSE f \in named : \A g \in named : f.id <= g.id).id)

\* allFolders = await this.listFolders(workspaceId, { recursive: true,
\* rootFolderId }) and the loop over subFolders of fabric.service.ts
ListAllFoldersByName ==
  /\ fab.phase = "listAll"
  /\ \/ LET walk == walkSubFoldersByName(listFolders(fab.folders, TRUE, fab.parentFolderId),
                                         Tail(fab.path), fab.parentFolderId,
                                         fab.resultingFolder)
        IN fab' = [fab EXCEPT !.phase = IF walk.createFolders = <<>> THEN "returned"
                                        ELSE "createSub",
                              !.parentFolderId = walk.parentFolderId,
                              !.resultingFolder = walk.resultingFolder,
                              !.createFolders = walk.createFolders]
     \/ fab' = [fab EXCEPT !.phase = "raised"]
  /\ UNCHANGED <<workflowVars, http, tok, shared, tpl, copy, fin, rep, cap, fac, lst, race, dst, dsr, rty, dto, del, rpl, bear, gdr>>

NextFabricByName ==
  \/ GetFolderOrCreateCalled
  \/ ListRootFolders
  \/ CreateRootFolder
  \/ ListAllFoldersByName
  \/ CreateSubFolder

SpecFabricByName == InitFabric /\ [][NextFabricByName]_vars

(* ======================= properties of the workflow ==================== *)

\* C1: in initClientProject the compensating deleteGroup request is issued
\* exactly when createGroup succeeded and a later step failed, once and
\* before the call raises, and the call then raises the
\* unexpected-creation error; a successful run and a run whose createGroup
\* failed issue no deleteGroup request.
C1_CompensatingDeleteThenGenericError ==
  entry = "init" =>
    /\ deleteRequests <= 1
    /\ pc \notin {"done", "raised"} => deleteRequests = 0
    /\ pc \in {"done", "raised"} =>
         /\ (deleteRequests = 1) <=> (newGroup # "" /\ pc = "raised")
         /\ (newGroup # "" /\ pc = "raised") =>
              err = PowerBiError("UNEXPECTED_CREATION_ERROR")

C3_RefreshPollBounded ==
  LET afterPoll == {"datasetCreateRefreshSchedule", "listReportsInGroup",
                    "listReportPagesInGroup", "getCapacities",
                    "assignCapacityToGroup", "done"}
  IN
  /\ refreshRequests <= counter
  /\ counter <= REFRESH_POLL_LIMIT
  /\ refreshRequests < counter =>
       refreshRequests = counter - 1 /\ cause = AzureError
  /\ pc = "getDatasetRefreshes" => ~refreshed /\ counter < REFRESH_POLL_LIMIT
  /\ (counter = REFRESH_POLL_LIMIT /\ cause = NoError) => pc \in afterPoll
  /\ pc \in afterPoll =>
       /\ refreshRequests = counter
       /\ counter >= 1
       /\ refreshed \/ counter = REFRESH_POLL_LIMIT
  /\ pc = "done" => result.returned /\ result.dataRefreshed = refreshed

\* C3 case reached: 72 polls, none all-final, and the result is returned
\* with dataRefreshed false
C3_Witness ==
  /\ pc = "done"
  /\ refreshRequests = REFRESH_POLL_LIMIT
  /\ result.returned /\ ~result.dataRefreshed

\* C4: after the import is submitted its status is polled at least once
\* and again for as long as it is "Publishing"; no later step is issued
\* while the last status observed is "Publishing", and after a "Failed"
\* status the workflow raises with none of the later steps issued.
C4_ImportPollGatesLaterSteps ==
  LET later == {"getGroupDatasets", "datasetTakeOver", "datasetUpdateParameters",
                "listDatasourcesInGroup", "gatewayDatasourceUpdate",
                "datasetRefresh", "getDatasetRefreshes",
                "datasetCreateRefreshSchedule", "listReportsInGroup",
                "listReportPagesInGroup"}
  IN
  /\ issued \cap later # {} =>
       importState = "Succeeded" /\ "getImportInGroup" \in issued
  /\ pc \in later \cup {"done"} => importState = "Succeeded"
  /\ (importState = "Publishing" /\ cause = NoError) => pc = "getImportInGroup"
  /\ importState = "Failed" =>
       /\ pc \in {"raised", "deleteGroup"}
       /\ cause = PowerBiError("FAILED_IMPORT")
       /\ issued \cap later = {}

\* C4 case reached: the platform has answered "Publishing" as often as it
\* does and the workflow is about to poll again
C4_Witness ==
  /\ pc = "getImportInGroup"
  /\ importState = "Publishing"
  /\ publishing = MaxImportPolls
  /\ lastOp = "getImportInGroup"

\* C5: one handleHttpCall makes at most two attempts: two exactly when the
\* first response has status 429, the second to the same URL, and one
\* otherwise; a last response that is not 2xx is raised as the
\* communication error with that response's status and status text; a
\* failure other than 429 is not retried.
C5_SingleRetryOn429 ==
  http.phase = "returned" =>
    LET n == Len(http.attempts)
        last == http.attempts[n].status
    IN
    /\ n \in {1, 2}
    /\ http.attempts[1] = [url |-> http.url, status |-> http.s1]
    /\ (n = 2) <=> (http.s1 = ERROR_TOO_MANY_REQUESTS)
    /\ n = 2 => http.attempts[2] = [url |-> http.url, status |-> http.s2]
    /\ http.ok <=> (last >= 200 /\ last <= 299)
    /\ http.ok => http.err = NoError
    /\ (last # NETWORK_FAILURE /\ ~(last >= 200 /\ last <= 299)) =>
         /\ http.err.kind = "COMMUNICATION_ERROR"
         /\ http.err.status = last
         /\ http.err.statusText = StatusText(last)

\* C5 case reached: a 429 answered with a second 429, raised with status 429
C5_Witness ==
  /\ http.phase = "returned"
  /\ Len(http.attempts) = 2
  /\ http.attempts[2].status = ERROR_TOO_MANY_REQUESTS
  /\ http.err = HttpError(ERROR_TOO_MANY_REQUESTS)

\* C6: importPbixToWorkspace called with an empty group id or with a
\* config without datasourceCredentials raises MISSING_INIT_CONFIGURATION
\* with no token requested and no request sent.
C6_ImportFailsFast ==
  (entry = "import" /\ (groupId = "" \/ config.datasourceCredentials = "undefined")) =>
    /\ pc = "raised"
    /\ err = PowerBiError("MISSING_INIT_CONFIGURATION")
    /\ issued = {} /\ lastOp = "none"
    /\ tokenRequests = 0 /\ authorizationToken = "empty"
    /\ groups = {"existing"}

\* C6 case reached: a known group id, no credentials
C6_Witness ==
  /\ entry = "import" /\ pc = "raised"
  /\ groupId = "existing"
  /\ config.datasourceCredentials = "undefined"
  /\ issued = {}

\* C7: an initClientProject call whose config has a name but no
\* datasourceCredentials raises without any remote request, and no
\* workspace is created for it.
C7_InitValidationBeforeSideEffect ==
  (entry = "init" /\ config.name # "" /\ config.datasourceCredentials = "undefined") =>
    /\ issued = {}
    /\ tokenRequests = 0
    /\ newGroup = ""
    /\ groups = {"existing"}

\* C8: initClientProject called with a config whose name is empty raises
\* MISSING_INIT_CONFIGURATION and sends no request: no createGroup, no
\* deleteGroup, no token exchange.
C8_InitWithoutNameFailsFast ==
  (entry = "init" /\ config.name = "") =>
    /\ pc = "raised"
    /\ err = PowerBiError("MISSING_INIT_CONFIGURATION")
    /\ issued = {} /\ deleteRequests = 0
    /\ tokenRequests = 0 /\ authorizationToken = "empty"
    /\ newGroup = "" /\ groups = {"existing"}

\* C8 case reached: the call with the empty name has raised
C8_Witness ==
  /\ entry = "init" /\ pc = "raised"
  /\ config.name = ""
  /\ err = PowerBiError("MISSING_INIT_CONFIGURATION")

C10_ImportFailureIsOpaque ==
  /\ (entry = "import" /\ pc = "raised" /\ importPreconditionOk(groupId, config)) =>
       err = PowerBiError("UNEXPECTED_CREATION_ERROR")
  /\ (importErr # NoError /\ importPreconditionOk(groupId, config)) =>
       importErr = PowerBiError("UNEXPECTED_CREATION_ERROR")

(* ================= properties of the calls on their own ================ *)

C12_TokenOwnedByMinter ==
  shared.phase = "running" =>
    /\ \A req \in shared.sent : req.minter = req.service
    /\ shared.overwritten = {}


\* C13: for successive getTemplate() calls on one config (each made after
\* the one before returned) whose supplier returns bytes, the supplier is
\* invoked exactly once, by the first call, and every call returns the
\* bytes of that first load.
C13_TemplateLoadedOnce ==
  (tpl.phase = "running" /\ ~tpl.overlapped /\ ~tpl.rejected) =>
    /\ tpl.loads = (IF tpl.calls >= 1 THEN 1 ELSE 0)
    /\ \A c \in tpl.inflight : c.call = 1 /\ c.load = 1
    /\ \A r \in tpl.returned : r.bytes = 1
    /\ tpl.returned # {} => tpl.template = 1
    /\ Cardinality(tpl.returned) + Cardinality(tpl.inflight) = tpl.calls

\* C13 case reached: every call of the sequence has returned, after one load
C13_Witness ==
  /\ tpl.phase = "running" /\ ~tpl.overlapped /\ ~tpl.rejected
  /\ tpl.calls = MaxTemplateCalls
  /\ Cardinality(tpl.returned) = MaxTemplateCalls
  /\ tpl.loads = 1


\* C14: copyUsersFromGroup sends addGroupUser for a source user exactly
\* when the identifier is neither in the snapshot of the target taken at
\* the start nor added earlier in the same copy: every missing identifier
\* is added once, present users are not re-added, after the copy the
\* target holds every source user, and a second copy right after the
\* first sends no addGroupUser.
C14_CopyIsIdempotentUnion ==
  copy.phase \in {"copying", "returned", "raised"} =>
    LET sourceUsers == {copy.source[i] : i \in 1 .. Len(copy.source)}
        addedUsers == {copy.adds[i] : i \in 1 .. Len(copy.adds)}
        visited == {copy.source[i] : i \in 1 .. Len(copy.source) - Len(copy.rest)}
    IN
    /\ \A i, j \in 1 .. Len(copy.adds) : copy.adds[i] = copy.adds[j] => i = j
    /\ addedUsers \subseteq sourceUsers \ copy.snapshot
    /\ copy.phase # "raised" => addedUsers = visited \ copy.snapshot
    /\ copy.skipped \subseteq copy.snapshot \cup addedUsers
    /\ copy.phase = "returned" =>
         /\ addedUsers = sourceUsers \ copy.snapshot
         /\ sourceUsers \subseteq copy.members
    /\ (copy.run = 2 /\ copy.phase # "raised") => copy.adds = <<>>

\* C14 case reached: a second copy has returned without a request, after a
\* first one that added a user listed twice to a target that had a member
C14_Witness ==
  /\ copy.phase = "returned" /\ copy.run = 2
  /\ copy.adds = <<>>
  /\ copy.source = <<1, 2, 1>>
  /\ copy.members = {1, 2}


\* C15: allRefreshesInFinalState(records) is false for absent records, true
\* for the empty list, and for a non-empty list true exactly when every
\* record's status is Completed, Failed or Disabled; one Unknown record
\* makes it false.
C15_AllFinalExcludesUnknown ==
  fin.phase = "returned" =>
    LET l == fin.refreshes.list IN
    /\ ~fin.refreshes.present => ~fin.out
    /\ (fin.refreshes.present /\ l = <<>>) => fin.out
    /\ (fin.refreshes.present /\ l # <<>>) =>
         (fin.out <=> \A i \in 1 .. Len(l) : l[i] \in {"Completed", "Failed", "Disabled"})
    /\ (fin.refreshes.present /\ \E i \in 1 .. Len(l) : l[i] = "Unknown") => ~fin.out

\* C15 case reached: final records and one Unknown record give false
C15_Witness ==
  /\ fin.phase = "returned"
  /\ fin.refreshes = [present |-> TRUE, list |-> <<"Completed", "Unknown">>]
  /\ ~fin.out


\* C16: importPbixToWorkspace sends the refresh-schedule request exactly
\* when the config carries schedule times (an absent schedule, missing or
\* empty times leave none, whatever the days); it is sent once, after the
\* refresh poll has ended, whether or not the refresh completed, and its
\* body has enabled = true, time zone UTC and the NoNotification option.
C16_ScheduleIffConfigured ==
  LET sched == "datasetCreateRefreshSchedule"
      pastSchedule == {"listReportsInGroup", "listReportPagesInGroup",
                       "getCapacities", "assignCapacityToGroup", "done"}
  IN
  /\ \A schedule \in Schedules :
       /\ scheduledTimesOf(schedule) \in {c.scheduledTimes : c \in Configs}
       /\ (scheduledTimesOf(schedule) # "undefined")
            <=> (schedule.present /\ schedule.times = "03:00")
       /\ refreshScheduleBody(scheduledTimesOf(schedule), scheduledDaysOf(schedule)).enabled
       /\ refreshScheduleBody(scheduledTimesOf(schedule),
                              scheduledDaysOf(schedule)).localTimeZoneId = "UTC"
       /\ refreshScheduleBody(scheduledTimesOf(schedule),
                              scheduledDaysOf(schedule)).notifyOption = "NoNotification"
  /\ sched \in issued =>
       /\ config.scheduledTimes # "undefined"
       /\ refreshRequests >= 1
       /\ refreshed \/ counter = REFRESH_POLL_LIMIT
       /\ pc # "getDatasetRefreshes"
  /\ pc = sched => sched \notin issued /\ config.scheduledTimes # "undefined"
  /\ pc \in pastSchedule => (sched \in issued <=> config.scheduledTimes # "undefined")

\* C16 case reached: the schedule was installed although the refresh had
\* not completed when the poll ended
C16_Witness ==
  /\ pc = "done"
  /\ "datasetCreateRefreshSchedule" \in issued
  /\ counter = REFRESH_POLL_LIMIT /\ ~refreshed
  /\ config.scheduledTimes = "03:00"


\* C17: the reports of a provisioning result are exactly the listed
\* reports bound to the provisioned dataset, in listing order, each with
\* the pages that were fetched for its own report id; a report bound to
\* another dataset is not in the result.
C17_ReportsOfDatasetInOrder ==
  LET position(id) == CHOOSE i \in DOMAIN rep.listing : rep.listing[i].id = id
  IN
  rep.phase = "done" =>
    /\ \A i \in DOMAIN rep.listing :
         (rep.listing[i].datasetId = rep.dataset)
           <=> (\E k \in DOMAIN rep.result : rep.result[k].id = rep.listing[i].id)
    /\ \A k \in DOMAIN rep.result :
         \E i \in DOMAIN rep.listing : rep.listing[i].id = rep.result[k].id
    /\ \A k, l \in DOMAIN rep.result :
         k < l => position(rep.result[k].id) < position(rep.result[l].id)
    /\ \A k \in DOMAIN rep.result :
         /\ [reportId |-> rep.result[k].id, pages |-> rep.result[k].pages]
              \in rep.requested
         /\ \A q \in rep.requested :
              q.reportId = rep.result[k].id => q.pages = rep.result[k].pages

\* C17 case reached: a listing with reports of both datasets, two of the
\* provisioned one with different pages, listed against the order of ids
C17_Witness ==
  /\ rep.phase = "done"
  /\ Len(rep.result) = 2
  /\ Len(rep.listing) = 3
  /\ rep.listing[2].datasetId # rep.dataset
  /\ rep.result[1].id > rep.result[2].id
  /\ rep.result[1].pages # rep.result[2].pages


\* C18: assignCapacityToGroup sends the assign-to-capacity request only
\* after getCapacities has returned a list that holds the requested
\* capacity id; when the returned list does not hold the id, the call
\* raises UNKNOWN_RESOURCE and the assign request is never sent.
C18_AssignOnlyKnownCapacity ==
  LET sent(req) == \E i \in DOMAIN cap.requests : cap.requests[i] = req
      holdsId == \E i \in DOMAIN cap.listed.list :
                   cap.listed.list[i] = cap.capacityId
  IN
  /\ sent("assignToCapacity") =>
       /\ cap.requests = <<"getCapacities", "assignToCapacity">>
       /\ cap.listed.present /\ holdsId
  /\ (cap.listed.present /\ ~holdsId) =>
       /\ cap.phase = "raised"
       /\ cap.err = PowerBiError("UNKNOWN_RESOURCE")
       /\ ~sent("assignToCapacity")
  /\ cap.phase = "returned" => sent("assignToCapacity") /\ cap.out = cap.capacityId

\* C18 case reached: the platform listed capacities, none of them the
\* requested one, and the call raised without the assign request
C18_Witness ==
  /\ cap.phase = "raised"
  /\ cap.listed.present
  /\ Len(cap.listed.list) = 2
  /\ \A i \in DOMAIN cap.listed.list : cap.listed.list[i] # cap.capacityId
  /\ cap.requests = <<"getCapacities">>
  /\ cap.err = PowerBiError("UNKNOWN_RESOURCE")


\* C19: a facade operation called without one of its required group id,
\* dataset id, report id, import id, capacity id or user arguments raises
\* MISSING_REQUIRED_PARAM before it requests a token and before it sends
\* an HTTP request.  (Violated: addGroupUser without the user,
\* datasetTakeOver without the dataset id and exportReport without any id
\* request a token and send their request.)
C19_MissingParameterRaisesFirst ==
  LET claimed == {"groupId", "datasetId", "reportId", "importId", "capacityId",
                  "user"}
  IN
  (fac.phase # "idle" /\ fac.missing \cap claimed # {}) =>
    /\ fac.tokenRequests = 0
    /\ fac.httpRequests = 0
    /\ fac.phase \in {"called", "raised"}
    /\ fac.phase = "raised" => fac.err = PowerBiError("MISSING_REQUIRED_PARAM")


\* C20: a listing operation whose call got a successful response returns
\* a sequence: the value of the envelope, and the empty sequence when the
\* envelope or its value is absent or null; it returns neither null nor
\* undefined and raises no error.  (Violated: getGroupUsers and
\* getGroupDatasets return undefined or null for an envelope without a
\* list, and a null body makes every operation but getDatasetRefreshes
\* throw.)
C20_ListingReturnsSequence ==
  /\ lst.phase = "raised" => lst.err # TypeError
  /\ lst.phase = "returned" =>
       /\ lst.out.kind = "sequence"
       /\ lst.out.list = lst.envelope.value


\* C21: importPbixToWorkspace called with a non-empty group id that the
\* platform's listing of groups does not hold fails with UNKNOWN_RESOURCE.
\* (Violated: getGroup returns undefined, the first use of pbiGroup.id
\* throws a TypeError inside the try block and the caller receives
\* UNEXPECTED_CREATION_ERROR.)
C21_UnknownWorkspaceIsUnknownResource ==
  LET transport == {HttpError(s) : s \in HttpStatuses} \cup {AzureError, FetchError}
  IN
  (/\ entry = "import"
   /\ pc = "raised"
   /\ groupId # "" /\ groupId \notin groups
   /\ importPreconditionOk(groupId, config)
   /\ cause \notin transport)
    => err = PowerBiError("UNKNOWN_RESOURCE")


\* C22: when the compensating deleteGroup of initClientProject fails (the
\* created group is still there after the call has raised), the caller
\* still receives UNEXPECTED_CREATION_ERROR for the provisioning failure
\* and not the error of the delete.  (Violated: the await of deleteGroup in
\* the catch block is unguarded and its error leaves the call.)
C22_FailedDeleteDoesNotMask ==
  (/\ entry = "init"
   /\ pc = "raised"
   /\ lastOp = "deleteGroup"
   /\ newGroup # "" /\ newGroup \in groups)
    => err = PowerBiError("UNEXPECTED_CREATION_ERROR")


\* C23: getFolderOrCreate is idempotent on a path.  A call that found no
\* folder in the workspace has sent one createFolder request per name of
\* the path, in path order, the first at the root and each next one with
\* the folder created before it as parent, and returns the last folder
\* created; a second call with the path of the first returns the same
\* folder and sends no createFolder request.
C23_GetFolderOrCreateIdempotent ==
  fab.phase = "returned" =>
    /\ fab.before = {} =>
         /\ Len(fab.created) = Len(fab.path)
         /\ \A k \in DOMAIN fab.created :
              /\ fab.created[k].name = fab.path[k]
              /\ fab.created[k].parent =
                   IF k = 1 THEN NoFolder ELSE fab.created[k - 1].id
         /\ fab.resultingFolder = fab.created[Len(fab.created)].id
    /\ (fab.call = "second" /\ fab.earlier # <<>> /\ fab.earlier[1].path = fab.path) =>
         /\ fab.created = <<>>
         /\ fab.folders = fab.before
         /\ fab.resultingFolder = fab.earlier[1].folder

\* C23 case reached: the path A/B/C requested twice, the first call having
\* created three folders, the second one returned
C23_Witness ==
  /\ fab.phase = "returned"
  /\ fab.call = "second"
  /\ fab.path = <<"A", "B", "C">>
  /\ fab.earlier = <<[path |-> <<"A", "B", "C">>, folder |-> 3]>>
  /\ Cardinality(fab.folders) = 3
  /\ fab.created = <<>>


\* C24: no two remote requests of one importPbixToWorkspace call are in
\* flight at the same time, the page listings of the reports of the result
\* included.  (Violated: Promise.all over reports.map(reportConvertor)
\* starts the listReportPagesInGroup call of every report before any of
\* them has returned.)
C24_NoParallelRequests ==
  rep.phase = "pages" => Cardinality(rep.waiting) <= 1


\* C25: two facade calls that share one provider and start while the
\* cached token is expired or absent race harmlessly: under every
\* interleaving a call that obtains a token sends its request with a token
\* that was valid when the call obtained it, every write to the cache
\* stores a valid token, the cache holds the token written last, and once
\* both calls have finished after sending their requests the cache holds a
\* valid token.
C25_TokenRaceIsHarmless ==
  /\ \A s \in race.sent :
       /\ isValidToken(s.bearer.state)
       /\ s.bearer.minter \in RaceCalls
  /\ \A i \in DOMAIN race.writes : isValidToken(race.writes[i].token.state)
  /\ race.writes # <<>> => race.cache = race.writes[Len(race.writes)].token
  /\ (\A c \in RaceCalls : race.call[c].at \in {"returned", "failed"}) =>
       /\ isValidToken(race.cache.state)
       /\ Len(race.writes) = 2
       /\ \A c \in RaceCalls : \E s \in race.sent : s.call = c

\* C25 case reached: both calls found the cache expired, both exchanged,
\* and the call whose exchange was started first wrote last
C25_Witness ==
  /\ race.call["a"].at = "returned" /\ race.call["b"].at = "returned"
  /\ race.call["a"].read.state = "expired"
  /\ race.call["b"].read.state = "expired"
  /\ race.writes = <<[by |-> "b", token |-> [minter |-> "b", state |-> "valid"]],
                     [by |-> "a", token |-> [minter |-> "a", state |-> "valid"]]>>
  /\ race.cache.minter = "a"


\* C26: the template supplier of one config is invoked at most once, also
\* when getTemplate() calls overlap (a call starts while the load of an
\* earlier one has not resolved).  (Violated: the field is set only when
\* the load resolves, so every call that starts before then invokes the
\* supplier again.)
C26_TemplateLoadedOnceWhenOverlapping ==
  (tpl.phase = "running" /\ ~tpl.rejected) => tpl.loads <= 1


\* C27: the dataset importPbixToWorkspace takes over, and whose id it
\* returns, is the dataset created by the import of that call, also when
\* the workspace already held a dataset of the same name; when no dataset
\* has the submitted name the call raises without a take-over request.
\* (Violated: the dataset is located by name only, so an older dataset of
\* that name listed before the new one is taken over and returned.)
C27_TakesOverImportedDataset ==
  /\ \A i \in DOMAIN dst.takeOver : dst.takeOver[i] = dst.created
  /\ dst.phase = "returned" => dst.datasetId = dst.created
  /\ (dst.phase \in {"datasetTakeOver", "returned", "raised"}
        /\ \A i \in DOMAIN dst.datasets : dst.datasets[i].name # dst.datasetName)
       => dst.phase = "raised" /\ dst.takeOver = <<>>


C29_EmptyParametersAreNoOp ==
  (/\ fac.phase \notin {"idle", "called"}
   /\ fac.op = "datasetUpdateParameters"
   /\ fac.noParams
   /\ "groupId" \notin fac.missing) =>
    /\ fac.phase = "returned"
    /\ fac.tokenRequests = 0
    /\ fac.httpRequests = 0
    /\ fac.err = NoError

\* C29 case reached: the call without parameters has returned
C29_Witness ==
  /\ fac.phase = "returned"
  /\ fac.op = "datasetUpdateParameters"
  /\ fac.noParams
  /\ fac.missing = {}
  /\ fac.httpRequests = 0


\* C30: the suspension before the retry of a 429 is 60 seconds when the
\* response has no Retry-After header, n seconds when the header is the
\* integer n and, when it is an HTTP date, the whole seconds from now to
\* that date rounded up, at least 1 second; the retry is not sent before
\* the suspension has elapsed.
C30_RetryAfterSuspension ==
  LET toDate == rty.header.n - rty.answeredAt
      seconds == rty.delayMs \div MS_PER_SECOND
  IN
  rty.phase \in {"sleep", "retry"} \/ (rty.phase = "settled" /\ rty.attempts = 2) =>
    /\ rty.delayMs = seconds * MS_PER_SECOND
    /\ rty.header.kind = "absent" => rty.delayMs = 60000
    /\ rty.header.kind = "integer" => rty.delayMs = rty.header.n * 1000
    /\ rty.header.kind = "date" =>
         /\ seconds >= 1
         /\ seconds * 1000 >= toDate
         /\ seconds > 1 => (seconds - 1) * 1000 < toDate
    /\ rty.attempts = 2 => rty.retriedAt - rty.answeredAt >= rty.delayMs
    /\ rty.phase = "sleep" => rty.attempts = 1

\* C30 case reached: a date header 1.5 s ahead, the retry sent after the
\* 2 s of the rounded-up suspension
C30_Witness ==
  /\ rty.phase = "retry"
  /\ rty.header = [kind |-> "date", n |-> 3000]
  /\ rty.answeredAt = 1500
  /\ rty.delayMs = 2000
  /\ rty.retriedAt = 3500


\* C31: a template item whose type tag has no mapping makes the
\* construction raise; no config that holds an unresolved (undefined)
\* credential or parameter entry is constructed and passed to provisioning.
C31_UnmappedTagRaisesAtConstruction ==
  dto.phase \in {"constructed", "provisioning"} =>
    LET unresolved ==
          \/ \E i \in DOMAIN dto.credentialData : dto.credentialData[i].undefined
          \/ \E i \in DOMAIN dto.datasourceParams : dto.datasourceParams[i].undefined
    IN unresolved => dto.raised /\ dto.phase # "provisioning"

\* C32: a credential item with an override value resolves to its name and
\* exactly that value, whatever its type tag; one without resolves to the
\* tenant field of its tag (USERNAME -> user, PASSWORD -> password).
C32_OverrideAlwaysWins ==
  dto.phase \in {"constructed", "provisioning"} =>
    \A i \in DOMAIN dto.credentialsTemplate.items :
      LET item == dto.credentialsTemplate.items[i]
          resolved == dto.credentialData[i]
      IN /\ item.overrideValue # NoOverride =>
              ~resolved.undefined /\ resolved.name = item.name
                /\ resolved.value = item.overrideValue
         /\ item.overrideValue = NoOverride /\ item.type = "USERNAME" =>
              ~resolved.undefined /\ resolved.name = item.name /\ resolved.value = "user-1"
         /\ item.overrideValue = NoOverride /\ item.type = "PASSWORD" =>
              ~resolved.undefined /\ resolved.name = item.name /\ resolved.value = "password-1"


\* C33: deleteRecursive deletes bottom-up: the delete request for a folder
\* goes out only after the delete requests for all folders below it have
\* returned; the target is deleted last and only with deleteSelf (without
\* it the target gets no delete request); when the path names no folder, no
\* delete request is sent at all.
C33_DeleteRecursiveBottomUp ==
  LET chains == {c \in [1 .. Len(del.path) -> del.before] :
                   /\ c[1].parent = NoFolder
                   /\ \A i \in 1 .. Len(del.path) :
                        /\ c[i].name = del.path[i]
                        /\ i > 1 => c[i].parent = c[i - 1].id}
      requested == {del.requests[k].id : k \in DOMAIN del.requests}
  IN
  del.phase # "idle" =>
    /\ \A k \in DOMAIN del.requests : \A d \in del.before :
         isUnder(del.before, d, del.requests[k].id) => d.id \in del.requests[k].returned
    /\ \A k \in DOMAIN del.requests :
         \/ \E c \in chains : isUnder(del.before, folderOfId(del.before, del.requests[k].id),
                                      c[Len(del.path)].id)
         \/ /\ \E c \in chains : c[Len(del.path)].id = del.requests[k].id
            /\ del.deleteSelf
            /\ k = Len(del.requests)
            /\ del.phase \in {"deleteSelfWait", "returned", "raised"}
    /\ chains = {} => del.requests = <<>>
    /\ del.phase = "returned" /\ chains # {} =>
         \A c \in chains :
           requested = {d.id : d \in {d \in del.before :
                                        isUnder(del.before, d, c[Len(del.path)].id)}}
                       \cup (IF del.deleteSelf THEN {c[Len(del.path)].id} ELSE {})

\* C33 case reached: the target "A" with a folder below it and one below
\* that, deleteSelf set, all three deleted and the call returned
C33_Witness ==
  /\ del.phase = "returned"
  /\ del.deleteSelf
  /\ del.path = <<"A">>
  /\ Len(del.requests) = 3
  /\ \E f, g \in del.before :
       f.parent = del.targetFolder /\ g.parent = f.id
         /\ del.requests[1].id = g.id /\ del.requests[2].id = f.id
         /\ del.requests[3].id = del.targetFolder

\* C33 case reached: the path names no folder of a workspace that has
\* folders, and the call returned
C33_WitnessNoFolder ==
  /\ del.phase = "returned"
  /\ del.targetFolder = NoFolder
  /\ del.before # {}


C36_AttemptsCarryLiveToken ==
  \A i \in DOMAIN bear.attempts :
    bear.attempts[i].sentAt < bear.attempts[i].expireAt


\* C37: for a non-empty list of refresh records groupDatasetRefreshed
\* returns allInFinalState = allRefreshesInFinalState(list), and
\* lastRefreshSuccessful = true exactly when all records are final and the
\* record with the greatest endTime is Completed (with several records at
\* the greatest endTime: only if one of them is Completed, and always if
\* all of them are); lastRefreshSuccessful is never true when
\* allInFinalState is false.
C37_RefreshInfoOfNonEmptyList ==
  LET latest == {r \in {gdr.refreshes[i] : i \in DOMAIN gdr.refreshes} :
                   \A i \in DOMAIN gdr.refreshes : gdr.refreshes[i].endTime <= r.endTime}
      allFinal == \A i \in DOMAIN gdr.refreshes :
                    gdr.refreshes[i].status \in {"Completed", "Failed", "Disabled"}
  IN
  gdr.phase \in {"returned", "raised"} /\ gdr.refreshes # <<>> =>
    /\ gdr.phase = "returned"
    /\ gdr.allInFinalState = allFinal
    /\ gdr.lastRefreshSuccessful =>
         allFinal /\ \E r \in latest : r.status = "Completed"
    /\ allFinal /\ (\A r \in latest : r.status = "Completed") =>
         gdr.lastRefreshSuccessful
    /\ ~gdr.allInFinalState => ~gdr.lastRefreshSuccessful

\* C37 case reached: the later of two final records is Completed, the
\* earlier one Failed, and lastRefreshSuccessful is true
C37_Witness ==
  /\ gdr.phase = "returned"
  /\ gdr.refreshes = <<[status |-> "Failed", endTime |-> 1],
                       [status |-> "Completed", endTime |-> 2]>>
  /\ gdr.allInFinalState
  /\ gdr.lastRefreshSuccessful

\* C38: groupDatasetRefreshed returns a DatasetRefreshInfo without raising
\* for every list getDatasetRefreshes returns, the empty list of a dataset
\* that was never refreshed included, for which lastRefreshSuccessful is
\* false.
C38_RefreshInfoNeverRaises ==
  /\ gdr.phase = "raised" => gdr.err # TypeError
  /\ gdr.phase = "returned" /\ gdr.refreshes = <<>> => ~gdr.lastRefreshSuccessful


\* C39: when a prefix of the requested path exists, getFolderOrCreate
\* creates only the missing folders, each as a child of the folder that
\* precedes it in the path, and takes a sub-folder as existing only if a
\* folder of that name lies directly under the preceding path folder.
C39_MissingFoldersUnderTheirParents ==
  LET n == Len(fab.path)
      chains(k) == {c \in [1 .. k -> fab.before] :
                      \A i \in 1 .. k :
                        /\ c[i].name = fab.path[i]
                        /\ c[i].parent = IF i = 1 THEN NoFolder ELSE c[i - 1].id}
      existing == CHOOSE k \in 0 .. n :
                    chains(k) # {} /\ \A m \in (k + 1) .. n : chains(m) = {}
  IN
  fab.phase = "returned" =>
    /\ Len(fab.created) = n - existing
    /\ \A j \in DOMAIN fab.created :
         /\ fab.created[j].name = fab.path[existing + j]
         /\ fab.created[j].parent =
              IF j > 1 THEN fab.created[j - 1].id
              ELSE IF existing = 0 THEN NoFolder
              ELSE (CHOOSE c \in chains(existing) : TRUE)[existing].id


\* C40: importToWorkspace called directly never issues a deleteGroup
\* request, whether it succeeds or fails at any step; a failed re-import
\* leaves the target workspace in place.
C40_DirectImportNeverDeletes ==
  entry = "import" =>
    /\ deleteRequests = 0
    /\ "deleteGroup" \notin issued
    /\ pc # "deleteGroup"
    /\ "existing" \in groups

\* C40 case reached: a direct import into the existing workspace failed
\* after the import was submitted, and the workspace is still there
C40_Witness ==
  /\ entry = "import"
  /\ groupId = "existing"
  /\ pc = "raised"
  /\ "importInGroup" \in issued
  /\ deleteRequests = 0
  /\ "existing" \in groups

====
